---- MODULE Spec2Model ----
(***************************************************************************)
(* Model of the ECS core (src/src/ecs: component.hpp, entity.hpp,          *)
(* system.hpp, world.hpp) and of the demo systems that run on it           *)
(* (src/src/demo).                                                         *)
(*                                                                         *)
(* Program state: World::systems_, and for every System object its         *)
(* next_entity_id_ and entities_, and for every Entity its id_ and         *)
(* components_.  The other variables are history variables recording       *)
(* which virtual hooks were invoked and what the last call returned.       *)
(*                                                                         *)
(* Pointers are modelled by paths: a System* is <<type>>, an Entity* is    *)
(* <<type, id>>, a Component* is <<type, id, component type>>; nullptr is  *)
(* the empty tuple.  float values are modelled by small integers, which    *)
(* float represents exactly.                                               *)
(***************************************************************************)
EXTENDS Integers, Sequences, FiniteSets, TLC

VARIABLES
    alive,        \* the World object exists (its destructor has not run)
    systems_,     \* World::systems_ : system type -> System object
    constructed,  \* history: the system types an instance of which was ever built
    calls,        \* history: hook invocations on the newest instance of each type
                  \* (initialize and tick are counted while it is registered)
    issued,       \* history: ids returned by add_entity on the newest instance
    was_shut_down,\* history: World::shutdown() has been called
    last          \* history: the last call, its arguments and what it returned

vars == <<alive, systems_, constructed, calls, issued, was_shut_down, last>>

----------------------------------------------------------------------------
(* Bounds of the model.                                                    *)

\* add_entity is called at most MaxIds times on one System instance (SpecEntity)
MaxIds == 2
\* and at most MaxWorldIds times on one System instance (Spec)
MaxWorldIds == 1
\* at most MaxDemoIds entities are added to a demo system
MaxDemoIds == 2
\* EntityID is IdBits wide (64 in the code)
IdBits == 3
\* at most MaxLive entities of one system are alive when one more is added
MaxLive == 2
\* int (Health::current_health, Health::max_health) is IntBits wide
IntBits == 7
\* a hook is invoked at most MaxHookCalls times on one System instance
MaxHookCalls == 2

\* concrete system types registered in the World
SysTypes == {"MovementSystem", "HealthSystem"}
\* every concrete system type modelled: those and the demo's TimerSystem
\* and AISystem
AllSysTypes == SysTypes \cup {"TimerSystem", "AISystem"}
\* concrete component types attached to entities
CompTypes == {"Position", "Health"}
\* values passed as float arguments (coordinates, delta)
Floats == {0, 1}
Deltas == {1, 2}
\* values passed as Health's max_hp
HitPoints == {0, 2}

\* the values of a signed int of IntBits bits
IntMin == -(2 ^ (IntBits - 1))
IntMax == 2 ^ (IntBits - 1) - 1
IntRange == IntMin..IntMax

\* the number of values of EntityID, an unsigned integer of IdBits bits
EntityIdLimit == 2 ^ IdBits

\* a + b on int, as the set of values the addition may give: the sum when it
\* is representable; signed overflow is undefined, so then any int
int_add(a, b) == IF a + b \in IntRange THEN {a + b} ELSE IntRange

\* static_cast<int>(f) of a float holding a whole number: that number when
\* it is representable; undefined otherwise, so then any int
static_cast_int(f) == IF f \in IntRange THEN {f} ELSE IntRange

nullptr == <<>>

----------------------------------------------------------------------------
(* std::unordered_map                                                      *)

\* emplace(k, v): inserts unless the key is present
Emplace(m, k, v) ==
    IF k \in DOMAIN m THEN m
    ELSE [x \in DOMAIN m \cup {k} |-> IF x = k THEN v ELSE m[x]]

\* erase(k) / erase(it)
Erase(m, k) == [x \in DOMAIN m \ {k} |-> m[x]]

\* clear(), and the state of a default-constructed map
EmptyMap == [x \in {} |-> x]

\* a range-for that may visit a key of the map more than once
IterationOrders_repeating(m) == [1..Cardinality(DOMAIN m) -> DOMAIN m]

\* the maps a loop over the keys of a map may leave behind when it may
\* turn the value under key k into any element of F[k]
RECURSIVE Choices(_)
Choices(F) ==
    IF DOMAIN F = {} THEN {EmptyMap}
    ELSE LET k == CHOOSE x \in DOMAIN F : TRUE
             rest == Choices([j \in DOMAIN F \ {k} |-> F[j]])
         IN  {[j \in DOMAIN F |-> IF j = k THEN v ELSE g[j]] :
                 g \in rest, v \in F[k]}

\* the orders in which a range-for may visit the keys of an unordered_map:
\* the standard leaves the order unspecified
IterationOrders(m) ==
    {o \in [1..Cardinality(DOMAIN m) -> DOMAIN m] :
        \A i, j \in 1..Cardinality(DOMAIN m) : o[i] = o[j] => i = j}

Range(s) == {s[i] : i \in DOMAIN s}

Min(a, b) == IF a <= b THEN a ELSE b

----------------------------------------------------------------------------
(* Component and its concrete types (component.hpp, demo/components.hpp)   *)

\* the constructor arguments a caller may pass for each component type
CompArgs(c) ==
    CASE c = "Position" -> Floats \X Floats
      [] c = "Health"   -> {<<hp>> : hp \in HitPoints}
      [] c = "Velocity" -> Floats \X Floats
      [] c = "Timer"    -> {2} \X BOOLEAN
      [] c = "AI"       -> {<<2>>}

\* std::make_unique<T>(args...): the constructed component, owner still null
NewComponent(c, args) ==
    CASE c = "Position" -> [owner |-> nullptr, x |-> args[1], y |-> args[2]]
      [] c = "Velocity" -> [owner |-> nullptr, dx |-> args[1], dy |-> args[2]]
      [] c = "Health"   -> [owner |-> nullptr, current_health |-> args[1],
                            max_health |-> args[1]]
      [] c = "Timer"    -> [owner |-> nullptr, elapsed_time |-> 0,
                            duration |-> args[1], auto_remove |-> args[2]]
      [] c = "AI"       -> [owner |-> nullptr, current_state |-> "Idle",
                            target_entity_id |-> 0, patrol_points |-> <<>>,
                            current_patrol_index |-> 0,
                            detection_range |-> args[1]]

\* Health::is_alive
is_alive(h) == h.current_health > 0

\* Timer::is_finished
is_finished(timer) == timer.elapsed_time >= timer.duration

----------------------------------------------------------------------------
(* Entity (entity.hpp)                                                     *)

\* Entity::Entity(id)
NewEntity(id) == [id_ |-> id, components_ |-> EmptyMap]

\* Entity::get_id
get_id(e) == e.id_

\* Entity::has_component<T>
has_component(e, c) == c \in DOMAIN e.components_

\* get_component handing out an address whether or not the key is present
get_component_always(self, e, c) == Append(self, c)

\* Entity::get_component<T>: the component's address, or nullptr
get_component(self, e, c) ==
    IF c \notin DOMAIN e.components_ THEN nullptr ELSE Append(self, c)

\* add_component without the "already exists" check: the new component
\* takes the place of the old one
add_component_overwrite(self, e, c, args) ==
    LET component == [NewComponent(c, args) EXCEPT !.owner = self]
    IN  <<[e EXCEPT !.components_ =
              [x \in DOMAIN e.components_ \cup {c} |->
                  IF x = c THEN component ELSE e.components_[x]]],
          Append(self, c)>>

\* add_component handing back a pointer to a component it did not keep
add_component_not_stored(self, e, c, args) ==
    IF c \in DOMAIN e.components_
    THEN <<e, nullptr>>
    ELSE <<e, Append(self, c)>>

\* add_component storing the component without setting its owner
add_component_no_owner(self, e, c, args) ==
    IF c \in DOMAIN e.components_
    THEN <<e, nullptr>>
    ELSE <<[e EXCEPT !.components_ =
               Emplace(e.components_, c, NewComponent(c, args))],
           Append(self, c)>>

\* Entity::add_component<T>(args...): <<entity afterwards, returned pointer>>.
\* self is the entity's address (this).
add_component(self, e, c, args) ==
    IF c \in DOMAIN e.components_
    THEN <<e, nullptr>>
    ELSE LET component == [NewComponent(c, args) EXCEPT !.owner = self]
         IN  <<[e EXCEPT !.components_ = Emplace(e.components_, c, component)],
               Append(self, c)>>

\* remove_component reporting success and leaving the component in the map
remove_component_keep(e, c) ==
    IF c \notin DOMAIN e.components_
    THEN <<e, FALSE>>
    ELSE <<e, TRUE>>

\* remove_component emptying the whole component map of the entity
remove_component_clear(e, c) ==
    IF c \notin DOMAIN e.components_
    THEN <<e, FALSE>>
    ELSE <<[e EXCEPT !.components_ = EmptyMap], TRUE>>

\* Entity::remove_component<T>: <<entity afterwards, returned bool>>
remove_component(e, c) ==
    IF c \notin DOMAIN e.components_
    THEN <<e, FALSE>>
    ELSE <<[e EXCEPT !.components_ = Erase(e.components_, c)], TRUE>>

----------------------------------------------------------------------------
(* System (system.hpp)                                                     *)

\* a System whose counter starts at 0
NewSystem_from_zero == [next_entity_id_ |-> 0, entities_ |-> EmptyMap]

\* a default-constructed System: next_entity_id_{1}, no entities
NewSystem == [next_entity_id_ |-> 1, entities_ |-> EmptyMap]

\* System::has_entity
has_entity(sys, id) == id \in DOMAIN sys.entities_

\* System::get_entity: the entity's address, or nullptr
get_entity(t, sys, id) ==
    IF id \notin DOMAIN sys.entities_ THEN nullptr ELSE <<t, id>>

\* add_entity handing out the smallest identifier no live entity holds
add_entity_reuse(t, sys) ==
    LET new_entity_id ==
            CHOOSE i \in 1..(Cardinality(DOMAIN sys.entities_) + 1) :
                /\ i \notin DOMAIN sys.entities_
                /\ \A j \in 1..(i - 1) : j \in DOMAIN sys.entities_
    IN  <<[next_entity_id_ |-> sys.next_entity_id_ + 1,
           entities_ |-> Emplace(sys.entities_, new_entity_id,
                                 NewEntity(new_entity_id))],
          <<t, new_entity_id>>>>

\* add_entity constructing the entity with the counter's value after the
\* increment while filing it under the value before
add_entity_id_after_increment(t, sys) ==
    LET new_entity_id == sys.next_entity_id_
    IN  <<[next_entity_id_ |-> sys.next_entity_id_ + 1,
           entities_ |-> Emplace(sys.entities_, new_entity_id,
                                 NewEntity(new_entity_id + 1))],
          <<t, new_entity_id>>>>

\* add_entity drawing its identifier from one counter shared by all the
\* systems of the world (the largest counter any of them has reached)
add_entity_shared_counter(t, sys) ==
    LET counters == {systems_[u].next_entity_id_ : u \in DOMAIN systems_}
                       \cup {sys.next_entity_id_}
        new_entity_id == CHOOSE n \in counters : \A k \in counters : k <= n
    IN  <<[next_entity_id_ |-> new_entity_id + 1,
           entities_ |-> Emplace(sys.entities_, new_entity_id,
                                 NewEntity(new_entity_id))],
          <<t, new_entity_id>>>>

\* add_entity advancing the counter by two
add_entity_double_increment(t, sys) ==
    LET new_entity_id == sys.next_entity_id_
    IN  <<[next_entity_id_ |-> sys.next_entity_id_ + 2,
           entities_ |-> Emplace(sys.entities_, new_entity_id,
                                 NewEntity(new_entity_id))],
          <<t, new_entity_id>>>>

\* System::add_entity: <<system afterwards, returned pointer>>.  The
\* counter is unsigned and wraps; when emplace finds the key taken it
\* inserts nothing and the new Entity dies with its unique_ptr, so the
\* pointer returned is the address of that destroyed Entity.
add_entity(t, sys) ==
    LET new_entity_id == sys.next_entity_id_
    IN  <<[next_entity_id_ |-> (sys.next_entity_id_ + 1) % EntityIdLimit,
           entities_ |-> Emplace(sys.entities_, new_entity_id,
                                 NewEntity(new_entity_id))],
          IF new_entity_id \in DOMAIN sys.entities_
          THEN <<t, new_entity_id, "destroyed">>
          ELSE <<t, new_entity_id>>>>

\* remove_entity leaving the entity and its components in the registry
remove_entity_keep(sys, id) == sys

\* remove_entity on a registry kept dense: the entity under the largest id
\* moves into the slot that was freed
remove_entity_swap_last(sys, id) ==
    IF id \notin DOMAIN sys.entities_ THEN sys
    ELSE LET top == CHOOSE k \in DOMAIN sys.entities_ :
                        \A j \in DOMAIN sys.entities_ : j <= k
         IN  [sys EXCEPT !.entities_ =
                [k \in DOMAIN sys.entities_ \ {top} |->
                    IF k = id THEN sys.entities_[top] ELSE sys.entities_[k]]]

\* System::remove_entity: the system afterwards
remove_entity(sys, id) == [sys EXCEPT !.entities_ = Erase(sys.entities_, id)]

\* What a call of System::remove_entity hands back to its caller, as the
\* sequence of returned values: the function is declared void, so none
\* (a bool-returning function would give <<TRUE>> or <<FALSE>>)
remove_entity_returned(sys, id) == <<>>

\* System::initialize is virtual: the base returns true, an override returns
\* what it likes.  The results the hooks of the registered systems may give:
InitializeOutcomes(m) == [DOMAIN m -> BOOLEAN]

\* System::shutdown is virtual; the base does nothing and no demo system
\* overrides it: the system afterwards
SystemShutdown(sys) == sys

----------------------------------------------------------------------------
(* Demo systems (demo/systems.hpp)                                         *)

\* MovementSystem::tick adding the velocity once, whatever delta is
MovementSystemTick_ignores_delta(sys, delta) ==
    LET Move(e) ==
            IF has_component(e, "Position") /\ has_component(e, "Velocity")
            THEN LET pos == e.components_["Position"]
                     vel == e.components_["Velocity"]
                 IN  [e EXCEPT !.components_["Position"] =
                          [pos EXCEPT !.x = pos.x + vel.dx,
                                      !.y = pos.y + vel.dy]]
            ELSE e
    IN  [sys EXCEPT !.entities_ =
            [id \in DOMAIN sys.entities_ |-> Move(sys.entities_[id])]]

\* MovementSystem::tick
MovementSystemTick(sys, delta) ==
    LET Move(e) ==
            IF has_component(e, "Position") /\ has_component(e, "Velocity")
            THEN LET pos == e.components_["Position"]
                     vel == e.components_["Velocity"]
                 IN  [e EXCEPT !.components_["Position"] =
                          [pos EXCEPT !.x = pos.x + vel.dx * delta,
                                      !.y = pos.y + vel.dy * delta]]
            ELSE e
    IN  [sys EXCEPT !.entities_ =
            [id \in DOMAIN sys.entities_ |-> Move(sys.entities_[id])]]

\* HealthSystem::health_regen_rate_ (HP per second)
health_regen_rate_ == 1

\* remove_entity(entity_id) for every entity_id of a collected list
RECURSIVE RemoveEntities(_, _)
RemoveEntities(sys, ids) ==
    IF ids = {} THEN sys
    ELSE LET entity_id == CHOOSE i \in ids : TRUE
         IN  RemoveEntities(remove_entity(sys, entity_id), ids \ {entity_id})

\* HealthSystem::tick, the regeneration of one scanned entity: the entities
\* it may become
HealthRegen(e, delta) ==
    IF has_component(e, "Health")
    THEN LET h == e.components_["Health"]
             regen == static_cast_int(health_regen_rate_ * delta)
             sums == UNION {int_add(h.current_health, k) : k \in regen}
         IN  IF h.current_health < h.max_health /\ h.current_health > 0
             THEN {[e EXCEPT !.components_["Health"].current_health =
                       Min(h.max_health, s)] : s \in sums}
             ELSE {e}
    ELSE {e}

\* HealthSystem::tick, a first loop that erases a dead entity on the spot
HealthSystemScan_erasing(sys, delta) ==
    LET Visit(e) == HealthRegen(e, delta)
        scans == Choices([id \in DOMAIN sys.entities_ |->
                             Visit(sys.entities_[id])])
        Dead(f) == {id \in DOMAIN f :
                      /\ has_component(f[id], "Health")
                      /\ ~is_alive(f[id].components_["Health"])}
    IN  {[system |-> RemoveEntities([sys EXCEPT !.entities_ = f], Dead(f)),
          entities_to_remove |-> Dead(f)] : f \in scans}

\* HealthSystem::tick, the first loop: the system after the scan and the
\* entities_to_remove it collected, for every outcome the scan may have
HealthSystemScan(sys, delta) ==
    LET Visit(e) == HealthRegen(e, delta)
        scans == Choices([id \in DOMAIN sys.entities_ |->
                             Visit(sys.entities_[id])])
    IN  {[system |-> [sys EXCEPT !.entities_ = f],
          entities_to_remove |->
             {id \in DOMAIN f :
                 /\ has_component(f[id], "Health")
                 /\ ~is_alive(f[id].components_["Health"])}] :
           f \in scans}

\* HealthSystem::tick whose second loop leaves the dead entities where
\* they are
HealthSystemRemoveDead_keep(scan) == scan.system

\* HealthSystem::tick, the second loop: the system after every collected
\* entity was removed
HealthSystemRemoveDead(scan) ==
    RemoveEntities(scan.system, scan.entities_to_remove)

\* HealthSystem::tick: the systems it may leave behind
HealthSystemTick(sys, delta) ==
    {HealthSystemRemoveDead(scan) : scan \in HealthSystemScan(sys, delta)}

\* TimerSystem::tick collecting every finished timer, auto_remove or not
TimerSystemScan_any_finished(sys, delta) ==
    LET Visit(e) ==
            IF has_component(e, "Timer")
            THEN {[e EXCEPT !.components_["Timer"].elapsed_time = @ + delta]}
            ELSE {e}
        scans == Choices([id \in DOMAIN sys.entities_ |->
                             Visit(sys.entities_[id])])
    IN  {[system |-> [sys EXCEPT !.entities_ = f],
          entities_to_process |->
             {id \in DOMAIN f :
                 /\ has_component(f[id], "Timer")
                 /\ is_finished(f[id].components_["Timer"])}] :
           f \in scans}

\* TimerSystem::tick, the first pass: the system after the scan and the
\* entities_to_process it collected
TimerSystemScan(sys, delta) ==
    LET Visit(e) ==
            IF has_component(e, "Timer")
            THEN {[e EXCEPT !.components_["Timer"].elapsed_time = @ + delta]}
            ELSE {e}
        scans == Choices([id \in DOMAIN sys.entities_ |->
                             Visit(sys.entities_[id])])
    IN  {[system |-> [sys EXCEPT !.entities_ = f],
          entities_to_process |->
             {id \in DOMAIN f :
                 /\ has_component(f[id], "Timer")
                 /\ is_finished(f[id].components_["Timer"])
                 /\ f[id].components_["Timer"].auto_remove}] :
           f \in scans}

\* TimerSystem::tick: the systems it may leave behind
TimerSystemTick(sys, delta) ==
    {RemoveEntities(scan.system, scan.entities_to_process) :
        scan \in TimerSystemScan(sys, delta)}

\* std::sqrt of a float holding a perfect square (the entities and the
\* patrol points of the model lie on one line, so that every distance
\* AISystem computes is a whole number)
sqrt(n) == CHOOSE r \in 0..n : r * r = n

\* handleIdleState that starts a chase when the AI has a target
handleIdleState_starts_chase(sys, id) ==
    LET ai == sys.entities_[id].components_["AI"]
        stopped == [sys EXCEPT
            !.entities_[id].components_["Velocity"].dx = 0,
            !.entities_[id].components_["Velocity"].dy = 0]
    IN  IF ai.target_entity_id # 0
        THEN [stopped EXCEPT
                 !.entities_[id].components_["AI"].current_state = "Chasing"]
        ELSE stopped

\* AISystem::handleIdleState: the system afterwards
handleIdleState(sys, id) ==
    LET ai == sys.entities_[id].components_["AI"]
        stopped == [sys EXCEPT
            !.entities_[id].components_["Velocity"].dx = 0,
            !.entities_[id].components_["Velocity"].dy = 0]
    IN  IF ai.patrol_points # <<>>
        THEN [stopped EXCEPT
                 !.entities_[id].components_["AI"].current_state = "Patrolling"]
        ELSE stopped

\* patrol_points[current_patrol_index], as the set of Positions the
\* expression may give: the element when the index is within the vector;
\* undefined otherwise, so then any Position
PatrolPointAt(ai) ==
    IF ai.current_patrol_index < Len(ai.patrol_points)
    THEN {ai.patrol_points[ai.current_patrol_index + 1]}
    ELSE {NewComponent("Position", <<x, 0>>) : x \in 0..3}

\* handlePatrolState advancing the index without the modulo
handlePatrolState_no_modulo(sys, id) ==
    LET e == sys.entities_[id]
        ai == e.components_["AI"]
        pos == e.components_["Position"]
        Towards(target_point) ==
            LET dx == target_point.x - pos.x
                dy == target_point.y - pos.y
                distance == sqrt(dx * dx + dy * dy)
            IN  IF distance < 1
                THEN [sys EXCEPT
                         !.entities_[id].components_["AI"]
                             .current_patrol_index = ai.current_patrol_index + 1]
                ELSE [sys EXCEPT
                         !.entities_[id].components_["Velocity"].dx =
                             (dx \div distance) * 10,
                         !.entities_[id].components_["Velocity"].dy =
                             (dy \div distance) * 10]
    IN  IF ai.patrol_points = <<>>
        THEN {[sys EXCEPT
                  !.entities_[id].components_["AI"].current_state = "Idle"]}
        ELSE {Towards(target_point) : target_point \in PatrolPointAt(ai)}

\* AISystem::handlePatrolState: the systems it may leave behind
handlePatrolState(sys, id) ==
    LET e == sys.entities_[id]
        ai == e.components_["AI"]
        pos == e.components_["Position"]
        Towards(target_point) ==
            LET dx == target_point.x - pos.x
                dy == target_point.y - pos.y
                distance == sqrt(dx * dx + dy * dy)
            IN  IF distance < 1
                THEN [sys EXCEPT
                         !.entities_[id].components_["AI"]
                             .current_patrol_index =
                                 (ai.current_patrol_index + 1)
                                     % Len(ai.patrol_points)]
                ELSE [sys EXCEPT
                         !.entities_[id].components_["Velocity"].dx =
                             (dx \div distance) * 10,
                         !.entities_[id].components_["Velocity"].dy =
                             (dy \div distance) * 10]
    IN  IF ai.patrol_points = <<>>
        THEN {[sys EXCEPT
                  !.entities_[id].components_["AI"].current_state = "Idle"]}
        ELSE {Towards(target_point) : target_point \in PatrolPointAt(ai)}

\* handleChaseState that keeps chasing a target it cannot find
handleChaseState_keeps_chasing(t, sys, id) ==
    LET e == sys.entities_[id]
        ai == e.components_["AI"]
        pos == e.components_["Position"]
        target == get_entity(t, sys, ai.target_entity_id)
    IN  IF target = nullptr
        THEN sys
        ELSE
        LET target_pos == get_component(target, sys.entities_[target[2]],
                                        "Position")
        IN  IF target_pos = nullptr
            THEN [sys EXCEPT
                     !.entities_[id].components_["AI"].current_state = "Idle"]
            ELSE
            LET tp == sys.entities_[target[2]].components_["Position"]
                dx == tp.x - pos.x
                dy == tp.y - pos.y
                distance == sqrt(dx * dx + dy * dy)
            IN  IF distance > ai.detection_range
                THEN [sys EXCEPT
                         !.entities_[id].components_["AI"].current_state =
                             "Patrolling",
                         !.entities_[id].components_["Velocity"].dx = 0,
                         !.entities_[id].components_["Velocity"].dy = 0]
                ELSE IF distance < 2
                THEN [sys EXCEPT
                         !.entities_[id].components_["AI"].current_state =
                             "Attacking"]
                ELSE [sys EXCEPT
                         !.entities_[id].components_["Velocity"].dx =
                             (dx \div distance) * 15,
                         !.entities_[id].components_["Velocity"].dy =
                             (dy \div distance) * 15]

\* AISystem::handleChaseState: the system afterwards
handleChaseState(t, sys, id) ==
    LET e == sys.entities_[id]
        ai == e.components_["AI"]
        pos == e.components_["Position"]
        target == get_entity(t, sys, ai.target_entity_id)
    IN  IF target = nullptr
        THEN [sys EXCEPT
                 !.entities_[id].components_["AI"].current_state = "Idle"]
        ELSE
        LET target_pos == get_component(target, sys.entities_[target[2]],
                                        "Position")
        IN  IF target_pos = nullptr
            THEN [sys EXCEPT
                     !.entities_[id].components_["AI"].current_state = "Idle"]
            ELSE
            LET tp == sys.entities_[target[2]].components_["Position"]
                dx == tp.x - pos.x
                dy == tp.y - pos.y
                distance == sqrt(dx * dx + dy * dy)
            IN  IF distance > ai.detection_range
                THEN [sys EXCEPT
                         !.entities_[id].components_["AI"].current_state =
                             "Patrolling",
                         !.entities_[id].components_["Velocity"].dx = 0,
                         !.entities_[id].components_["Velocity"].dy = 0]
                ELSE IF distance < 2
                THEN [sys EXCEPT
                         !.entities_[id].components_["AI"].current_state =
                             "Attacking"]
                ELSE [sys EXCEPT
                         !.entities_[id].components_["Velocity"].dx =
                             (dx \div distance) * 15,
                         !.entities_[id].components_["Velocity"].dy =
                             (dy \div distance) * 15]

\* AISystem::handleAttackState: the systems it may leave behind
handleAttackState(t, sys, id, delta) ==
    LET ai == sys.entities_[id].components_["AI"]
        stopped == [sys EXCEPT
            !.entities_[id].components_["Velocity"].dx = 0,
            !.entities_[id].components_["Velocity"].dy = 0]
        target == get_entity(t, stopped, ai.target_entity_id)
    IN  IF target = nullptr
        THEN {[stopped EXCEPT
                  !.entities_[id].components_["AI"].current_state = "Idle"]}
        ELSE
        LET te == stopped.entities_[target[2]]
            target_health == get_component(target, te, "Health")
            target_pos == get_component(target, te, "Position")
        IN  IF target_health = nullptr \/ target_pos = nullptr
            THEN {stopped}
            ELSE
            LET pos == stopped.entities_[id].components_["Position"]
                dx == te.components_["Position"].x - pos.x
                dy == te.components_["Position"].y - pos.y
                distance == sqrt(dx * dx + dy * dy)
                Hit(v) ==
                    LET hurt == [stopped EXCEPT
                            !.entities_[target[2]].components_["Health"]
                                .current_health = v]
                    IN  IF v <= 0
                        THEN [hurt EXCEPT
                                 !.entities_[id].components_["AI"]
                                     .current_state = "Idle"]
                        ELSE hurt
            IN  IF distance <= 2
                THEN {Hit(v) :
                         v \in UNION {int_add(te.components_["Health"]
                                                 .current_health, -damage) :
                                         damage \in
                                             static_cast_int(50 * delta)}}
                ELSE {[stopped EXCEPT
                          !.entities_[id].components_["AI"].current_state =
                              "Chasing"]}

\* the body of the loop of AISystem::tick for the entity id: the systems
\* it may leave behind
AISystemVisit(t, sys, id, delta) ==
    LET e == sys.entities_[id]
    IN  IF /\ get_component(<<t, id>>, e, "AI") # nullptr
           /\ get_component(<<t, id>>, e, "Position") # nullptr
           /\ get_component(<<t, id>>, e, "Velocity") # nullptr
        THEN LET current_state == e.components_["AI"].current_state
             IN  CASE current_state = "Idle" -> {handleIdleState(sys, id)}
                   [] current_state = "Patrolling" ->
                          handlePatrolState(sys, id)
                   [] current_state = "Chasing" ->
                          {handleChaseState(t, sys, id)}
                   [] current_state = "Attacking" ->
                          handleAttackState(t, sys, id, delta)
        ELSE {sys}

\* the loop of AISystem::tick from the i-th entity of the order on
RECURSIVE AISystemLoop(_, _, _, _, _)
AISystemLoop(t, sys, order, i, delta) ==
    IF i > Len(order) THEN {sys}
    ELSE UNION {AISystemLoop(t, s, order, i + 1, delta) :
                   s \in AISystemVisit(t, sys, order[i], delta)}

\* AISystem::tick: the systems it may leave behind
AISystemTick(t, sys, delta) ==
    UNION {AISystemLoop(t, sys, order, 1, delta) :
              order \in IterationOrders(sys.entities_)}

\* the virtual call system->tick(delta): the systems it may leave behind
SystemTick(t, sys, delta) ==
    CASE t = "MovementSystem" -> {MovementSystemTick(sys, delta)}
      [] t = "HealthSystem"   -> HealthSystemTick(sys, delta)
      [] t = "TimerSystem"    -> TimerSystemTick(sys, delta)
      [] t = "AISystem"       -> AISystemTick(t, sys, delta)

----------------------------------------------------------------------------
(* History bookkeeping                                                     *)

NoCalls == [initialize |-> 0, tick |-> 0, shutdown |-> 0]

\* the hook `hook` was invoked once on each system of the sequence `visited`
Invoked(hook, visited) ==
    [t \in DOMAIN calls |->
        LET n == Cardinality({i \in DOMAIN visited : visited[i] = t})
        IN  [calls[t] EXCEPT ![hook] = @ + n]]

\* the systems that are in registry m and not in registry n were destroyed:
\* their initialize and tick counts are dropped
Destroyed(c, m, n) ==
    [t \in DOMAIN c |->
        IF t \in DOMAIN m \ DOMAIN n
        THEN [c[t] EXCEPT !.initialize = 0, !.tick = 0]
        ELSE c[t]]

----------------------------------------------------------------------------
(* World (world.hpp)                                                       *)

Init ==
    /\ alive = TRUE
    /\ systems_ = EmptyMap
    /\ constructed = {}
    /\ calls = [t \in AllSysTypes |-> NoCalls]
    /\ issued = [t \in AllSysTypes |-> <<>>]
    /\ was_shut_down = FALSE
    /\ last = [op |-> "World"]

\* add_system without the "already exists" check: a new system takes the
\* place of the registered one
WorldAddSystem_replace(t) ==
    /\ alive
    /\ systems_' = [x \in DOMAIN systems_ \cup {t} |->
                       IF x = t THEN NewSystem ELSE systems_[x]]
    /\ constructed' = constructed \cup {t}
    /\ calls' = [calls EXCEPT ![t] = NoCalls]
    /\ issued' = [issued EXCEPT ![t] = <<>>]
    /\ last' = [op |-> "add_system", sys |-> t, result |-> <<t>>,
                readded |-> /\ last.op = "remove_system"
                            /\ last.sys = t
                            /\ last.result]
    /\ UNCHANGED <<alive, was_shut_down>>

\* World::add_system<T>()
WorldAddSystem(t) ==
    /\ alive
    /\ IF t \in DOMAIN systems_
       THEN /\ last' = [op |-> "add_system", sys |-> t, result |-> nullptr,
                        readded |-> FALSE]
            /\ UNCHANGED <<alive, systems_, constructed, calls, issued, was_shut_down>>
       ELSE /\ systems_' = Emplace(systems_, t, NewSystem)
            /\ constructed' = constructed \cup {t}
            /\ calls' = [calls EXCEPT ![t] = NoCalls]
            /\ issued' = [issued EXCEPT ![t] = <<>>]
            /\ last' = [op |-> "add_system", sys |-> t, result |-> <<t>>,
                        readded |-> /\ last.op = "remove_system"
                                    /\ last.sys = t
                                    /\ last.result]
            /\ UNCHANGED <<alive, was_shut_down>>

\* remove_system erasing the system without calling its shutdown()
WorldRemoveSystem_no_shutdown(t) ==
    /\ alive
    /\ IF t \notin DOMAIN systems_
       THEN /\ last' = [op |-> "remove_system", sys |-> t, result |-> FALSE]
            /\ UNCHANGED <<alive, systems_, constructed, calls, issued, was_shut_down>>
       ELSE /\ systems_' = Erase(systems_, t)
            /\ calls' = Destroyed(calls, systems_, systems_')
            /\ last' = [op |-> "remove_system", sys |-> t, result |-> TRUE]
            /\ UNCHANGED <<alive, constructed, issued, was_shut_down>>

\* remove_system calling shutdown() and leaving the system in the registry
WorldRemoveSystem_no_erase(t) ==
    /\ alive
    /\ IF t \notin DOMAIN systems_
       THEN /\ last' = [op |-> "remove_system", sys |-> t, result |-> FALSE]
            /\ UNCHANGED <<alive, systems_, constructed, calls, issued, was_shut_down>>
       ELSE /\ calls' = Invoked("shutdown", <<t>>)
            /\ last' = [op |-> "remove_system", sys |-> t, result |-> TRUE,
                        hooked |-> TRUE]
            /\ UNCHANGED <<alive, systems_, constructed, issued, was_shut_down>>

\* World::remove_system<T>()
WorldRemoveSystem(t) ==
    /\ alive
    /\ IF t \notin DOMAIN systems_
       THEN /\ last' = [op |-> "remove_system", sys |-> t, result |-> FALSE]
            /\ UNCHANGED <<alive, systems_, constructed, calls, issued, was_shut_down>>
       ELSE LET shut == [systems_ EXCEPT ![t] = SystemShutdown(@)]
            IN  /\ systems_' = Erase(shut, t)
                /\ calls' = Destroyed(Invoked("shutdown", <<t>>),
                                      systems_, systems_')
                /\ last' = [op |-> "remove_system", sys |-> t, result |-> TRUE,
                            hooked |-> t \in DOMAIN shut]
                /\ UNCHANGED <<alive, constructed, issued, was_shut_down>>

\* the loop of World::initialize without the break
InitializeVisited_no_break(order, outcome) == order

\* the loop of World::initialize starting at the second system
InitializeVisited_skip_first(order, outcome) ==
    LET failing == {i \in DOMAIN order : i > 1 /\ ~outcome[order[i]]}
    IN  IF failing = {} THEN SubSeq(order, 2, Len(order))
        ELSE SubSeq(order, 2, CHOOSE i \in failing : \A j \in failing : i <= j)

\* the systems World::initialize visits: it stops after the first one whose
\* initialize() returns false
InitializeVisited(order, outcome) ==
    LET failing == {i \in DOMAIN order : ~outcome[order[i]]}
    IN  IF failing = {} THEN order
        ELSE SubSeq(order, 1, CHOOSE i \in failing : \A j \in failing : i <= j)

\* the value World::initialize returns
\* World::initialize reporting failure when it has initialized nothing
InitializeResult_needs_a_system(visited, outcome) ==
    /\ visited # <<>>
    /\ \A i \in DOMAIN visited : outcome[visited[i]]

InitializeResult(visited, outcome) ==
    \A i \in DOMAIN visited : outcome[visited[i]]

\* World::initialize() undoing a failed initialization: the systems it
\* visited are shut down and the registry is cleared
WorldInitialize_rollback ==
    /\ alive
    /\ \A t \in DOMAIN systems_ : calls[t].initialize < MaxHookCalls
    /\ \E order \in IterationOrders(systems_) :
       \E outcome \in InitializeOutcomes(systems_) :
          LET failing == {i \in DOMAIN order : ~outcome[order[i]]}
              visited == IF failing = {} THEN order
                         ELSE SubSeq(order, 1, CHOOSE i \in failing :
                                                  \A j \in failing : i <= j)
              result  == failing = {}
          IN  /\ calls' = [t \in DOMAIN calls |->
                             IF t \in Range(visited)
                             THEN [calls[t] EXCEPT
                                      !.initialize = @ + 1,
                                      !.shutdown = IF result THEN @ ELSE @ + 1]
                             ELSE calls[t]]
              /\ systems_' = IF result THEN systems_ ELSE EmptyMap
              /\ last' = [op |-> "initialize", order |-> order,
                          outcome |-> outcome, invoked |-> visited,
                          result |-> result]
    /\ UNCHANGED <<alive, constructed, issued, was_shut_down>>

\* World::initialize()
WorldInitialize ==
    /\ alive
    /\ \A t \in DOMAIN systems_ : calls[t].initialize < MaxHookCalls
    /\ \E order \in IterationOrders(systems_) :
       \E outcome \in InitializeOutcomes(systems_) :
          LET visited == InitializeVisited(order, outcome)
          IN  /\ calls' = Invoked("initialize", visited)
              /\ last' = [op |-> "initialize", order |-> order,
                          outcome |-> outcome, invoked |-> visited,
                          result |-> InitializeResult(visited, outcome)]
    /\ UNCHANGED <<alive, systems_, constructed, issued, was_shut_down>>

\* the loop of World::tick skipping the systems never initialized
TickVisited_initialized_only(order) ==
    LET initialized(t) == calls[t].initialize > 0
    IN  SelectSeq(order, initialized)

\* the systems World::tick visits
TickVisited(order) == order

\* World::tick(delta)
WorldTick(delta) ==
    /\ alive
    /\ \A t \in DOMAIN systems_ : calls[t].tick < MaxHookCalls
    /\ \E order \in IterationOrders(systems_) :
          LET visited == TickVisited(order)
          IN  /\ systems_' \in
                    Choices([t \in DOMAIN systems_ |->
                                IF t \in Range(visited)
                                THEN SystemTick(t, systems_[t], delta)
                                ELSE {systems_[t]}])
              /\ calls' = Invoked("tick", visited)
              /\ last' = [op |-> "tick", delta |-> delta, invoked |-> visited,
                          passed |-> [i \in DOMAIN visited |-> delta]]
    /\ UNCHANGED <<alive, constructed, issued, was_shut_down>>

\* World::shutdown without systems_.clear()
ShutdownRegistry_keep(m) == m

\* the registry World::shutdown leaves behind
ShutdownRegistry(m) == EmptyMap

\* World::shutdown()
WorldShutdown ==
    /\ alive
    /\ systems_' = ShutdownRegistry(
                       [t \in DOMAIN systems_ |-> SystemShutdown(systems_[t])])
    /\ \E order \in IterationOrders(systems_) :
          /\ calls' = Destroyed(Invoked("shutdown", order), systems_, systems_')
          /\ last' = [op |-> "shutdown", invoked |-> order,
                      again |-> last.op = "shutdown"]
    /\ was_shut_down' = TRUE
    /\ UNCHANGED <<alive, constructed, issued>>

\* World::~World(): shutdown(), then the members are destroyed
WorldDestroy ==
    /\ alive
    /\ systems_' = EmptyMap
    /\ \E order \in IterationOrders(systems_) :
          /\ calls' = Destroyed(Invoked("shutdown", order), systems_, systems_')
          /\ last' = [op |-> "~World", invoked |-> order]
    /\ was_shut_down' = TRUE
    /\ alive' = FALSE
    /\ UNCHANGED <<constructed, issued>>

----------------------------------------------------------------------------
(* Calls made through the accessors add_system and add_entity returned     *)

\* system->add_entity() on a registered system
SystemAddEntity(t) ==
    /\ alive
    /\ t \in DOMAIN systems_
    /\ LET r == add_entity(t, systems_[t])
       IN  /\ systems_' = [systems_ EXCEPT ![t] = r[1]]
           /\ issued' = [issued EXCEPT ![t] = Append(@, r[2][2])]
           /\ last' = [op |-> "add_entity", sys |-> t, result |-> r[2],
                       readded |-> /\ last.op = "add_system"
                                   /\ last.sys = t
                                   /\ last.readded]
    /\ UNCHANGED <<alive, constructed, calls, was_shut_down>>

\* system->remove_entity(id) on a registered system
SystemRemoveEntity(t, id) ==
    /\ alive
    /\ t \in DOMAIN systems_
    /\ systems_' = [systems_ EXCEPT ![t] = remove_entity(@, id)]
    /\ last' = [op |-> "remove_entity", sys |-> t, id |-> id,
                found |-> has_entity(systems_[t], id),
                destroyed |-> IF has_entity(systems_[t], id)
                              THEN DOMAIN systems_[t].entities_[id].components_
                              ELSE {},
                returned |-> remove_entity_returned(systems_[t], id)]
    /\ UNCHANGED <<alive, constructed, calls, issued, was_shut_down>>

\* system->has_entity(id)
SystemHasEntity(t, id) ==
    /\ alive
    /\ t \in DOMAIN systems_
    /\ last' = [op |-> "has_entity", sys |-> t, id |-> id,
                result |-> has_entity(systems_[t], id)]
    /\ UNCHANGED <<alive, systems_, constructed, calls, issued, was_shut_down>>

\* system->get_entity(id)
SystemGetEntity(t, id) ==
    /\ alive
    /\ t \in DOMAIN systems_
    /\ last' = [op |-> "get_entity", sys |-> t, id |-> id,
                result |-> get_entity(t, systems_[t], id)]
    /\ UNCHANGED <<alive, systems_, constructed, calls, issued, was_shut_down>>

\* entity->has_component<T>() on an entity of a registered system
EntityHasComponent(t, id, c) ==
    /\ alive
    /\ t \in DOMAIN systems_
    /\ id \in DOMAIN systems_[t].entities_
    /\ last' = [op |-> "has_component", sys |-> t, id |-> id, comp |-> c,
                result |-> has_component(systems_[t].entities_[id], c)]
    /\ UNCHANGED <<alive, systems_, constructed, calls, issued, was_shut_down>>

\* entity->get_component<T>() on an entity of a registered system
EntityGetComponent(t, id, c) ==
    /\ alive
    /\ t \in DOMAIN systems_
    /\ id \in DOMAIN systems_[t].entities_
    /\ last' = [op |-> "get_component", sys |-> t, id |-> id, comp |-> c,
                result |-> get_component(<<t, id>>,
                                         systems_[t].entities_[id], c)]
    /\ UNCHANGED <<alive, systems_, constructed, calls, issued, was_shut_down>>

\* entity->add_component<T>(args...) on an entity of a registered system
EntityAddComponent(t, id, c, args) ==
    /\ alive
    /\ t \in DOMAIN systems_
    /\ id \in DOMAIN systems_[t].entities_
    /\ LET r == add_component(<<t, id>>, systems_[t].entities_[id], c, args)
       IN  /\ systems_' = [systems_ EXCEPT ![t].entities_[id] = r[1]]
           /\ last' = [op |-> "add_component", sys |-> t, id |-> id,
                       comp |-> c, args |-> args, result |-> r[2]]
    /\ UNCHANGED <<alive, constructed, calls, issued, was_shut_down>>

\* entity->remove_component<T>() on an entity of a registered system
EntityRemoveComponent(t, id, c) ==
    /\ alive
    /\ t \in DOMAIN systems_
    /\ id \in DOMAIN systems_[t].entities_
    /\ LET r == remove_component(systems_[t].entities_[id], c)
       IN  /\ systems_' = [systems_ EXCEPT ![t].entities_[id] = r[1]]
           /\ last' = [op |-> "remove_component", sys |-> t, id |-> id,
                       comp |-> c, result |-> r[2]]
    /\ UNCHANGED <<alive, constructed, calls, issued, was_shut_down>>

\* the caller's  if (auto* h = entity->get_component<Health>())
\* h->current_health -= damage;  on an entity of a registered system
HealthDamage(t, id, damage) ==
    /\ alive
    /\ t \in DOMAIN systems_
    /\ id \in DOMAIN systems_[t].entities_
    /\ LET e == systems_[t].entities_[id]
       IN  IF get_component(<<t, id>>, e, "Health") # nullptr
           THEN \E v \in int_add(e.components_["Health"].current_health,
                                 -damage) :
                   systems_' = [systems_ EXCEPT
                       ![t].entities_[id].components_["Health"].current_health
                           = v]
           ELSE systems_' = systems_
    /\ last' = [op |-> "damage", sys |-> t, id |-> id, damage |-> damage]
    /\ UNCHANGED <<alive, constructed, calls, issued, was_shut_down>>

\* the demo's create_player(system) for a player at (x, 0) with max_hp hit
\* points: add_entity, then add_component of Position, Velocity and Health
CreatePlayer(t, x, max_hp) ==
    /\ alive
    /\ t \in DOMAIN systems_
    /\ LET r == add_entity(t, systems_[t])
           player == r[2]
           positioned == add_component(player, r[1].entities_[player[2]],
                                       "Position", <<x, 0>>)[1]
           moving == add_component(player, positioned, "Velocity", <<0, 0>>)[1]
           healthy == add_component(player, moving, "Health", <<max_hp>>)[1]
       IN  /\ systems_' = [systems_ EXCEPT
                               ![t] = [r[1] EXCEPT
                                          !.entities_[player[2]] = healthy]]
           /\ issued' = [issued EXCEPT ![t] = Append(@, player[2])]
           /\ last' = [op |-> "create_player", sys |-> t, result |-> player]
    /\ UNCHANGED <<alive, constructed, calls, was_shut_down>>

\* the demo's create_enemy(system, name, x, 0, target_id) for an enemy with
\* max_hp hit points: add_entity, add_component of Position, Velocity,
\* Health and AI, then the writes to the AI's public fields: the target,
\* the state (the demo writes Patrolling) and the patrol points pushed back
CreateEnemy(t, x, max_hp, target_id, state, points) ==
    /\ alive
    /\ t \in DOMAIN systems_
    /\ LET r == add_entity(t, systems_[t])
           enemy == r[2]
           positioned == add_component(enemy, r[1].entities_[enemy[2]],
                                       "Position", <<x, 0>>)[1]
           moving == add_component(enemy, positioned, "Velocity", <<0, 0>>)[1]
           healthy == add_component(enemy, moving, "Health", <<max_hp>>)[1]
           thinking == add_component(enemy, healthy, "AI", <<2>>)[1]
           ai == thinking.components_["AI"]
       IN  /\ systems_' = [systems_ EXCEPT
                 ![t] = [r[1] EXCEPT
                     !.entities_[enemy[2]] =
                         [thinking EXCEPT
                             !.components_["AI"] =
                                 [ai EXCEPT
                                     !.target_entity_id = target_id,
                                     !.current_state = state,
                                     !.patrol_points = ai.patrol_points \o
                                         [i \in DOMAIN points |->
                                             NewComponent("Position",
                                                          <<points[i], 0>>)]]]]]
           /\ issued' = [issued EXCEPT ![t] = Append(@, enemy[2])]
           /\ last' = [op |-> "create_enemy", sys |-> t, result |-> enemy]
    /\ UNCHANGED <<alive, constructed, calls, was_shut_down>>

----------------------------------------------------------------------------
(* Specifications                                                          *)

\* fewer than cap identifiers were handed out by the registered system t
IdsLeft(t, cap) ==
    t \in DOMAIN systems_ /\ systems_[t].next_entity_id_ <= cap

\* the World and the entity registries of its systems
Next ==
    \/ \E t \in SysTypes : WorldAddSystem(t)
    \/ \E t \in SysTypes : WorldRemoveSystem(t)
    \/ WorldInitialize
    \/ \E delta \in Deltas : WorldTick(delta)
    \/ WorldShutdown
    \/ WorldDestroy
    \/ \E t \in SysTypes : IdsLeft(t, MaxWorldIds) /\ SystemAddEntity(t)
    \/ \E t \in SysTypes : \E id \in 1..MaxWorldIds : SystemRemoveEntity(t, id)

Spec == Init /\ [][Next]_vars

\* one system, its entities and their components
NextEntity ==
    \/ WorldAddSystem("HealthSystem")
    \/ IdsLeft("HealthSystem", MaxIds) /\ SystemAddEntity("HealthSystem")
    \/ \E id \in 1..MaxIds : SystemRemoveEntity("HealthSystem", id)
    \/ \E id \in 1..MaxIds : \E c \in CompTypes : \E args \in CompArgs(c) :
          EntityAddComponent("HealthSystem", id, c, args)
    \/ \E id \in 1..MaxIds : \E c \in CompTypes :
          EntityRemoveComponent("HealthSystem", id, c)
    \/ \E id \in 1..MaxIds : SystemHasEntity("HealthSystem", id)
    \/ \E id \in 1..MaxIds : SystemGetEntity("HealthSystem", id)
    \/ \E id \in 1..MaxIds : \E c \in CompTypes :
          EntityHasComponent("HealthSystem", id, c)
    \/ \E id \in 1..MaxIds : \E c \in CompTypes :
          EntityGetComponent("HealthSystem", id, c)

SpecEntity == Init /\ [][NextEntity]_vars

\* a MovementSystem, its entities, their Position and Velocity (the
\* values of the test program) and the World's ticks
NextMovement ==
    \/ WorldAddSystem("MovementSystem")
    \/ IdsLeft("MovementSystem", MaxDemoIds) /\ SystemAddEntity("MovementSystem")
    \/ \E id \in 1..MaxDemoIds :
          EntityAddComponent("MovementSystem", id, "Position", <<10, 20>>)
    \/ \E id \in 1..MaxDemoIds :
          EntityAddComponent("MovementSystem", id, "Velocity", <<1, 2>>)
    \/ \E delta \in Deltas : WorldTick(delta)

SpecMovement == Init /\ [][NextMovement]_vars

\* damage a caller deals in one blow
Damages == {1, 3}

\* one HealthSystem or one TimerSystem, its entities with their Health or
\* Timer, blows dealt to living entities, and the World's ticks
NextDemo ==
    \/ \E t \in {"HealthSystem", "TimerSystem"} :
          systems_ = EmptyMap /\ WorldAddSystem(t)
    \/ \E t \in {"HealthSystem", "TimerSystem"} :
          IdsLeft(t, MaxDemoIds) /\ SystemAddEntity(t)
    \/ \E id \in 1..MaxDemoIds : \E args \in CompArgs("Health") :
          EntityAddComponent("HealthSystem", id, "Health", args)
    \/ \E id \in 1..MaxDemoIds : \E args \in CompArgs("Timer") :
          EntityAddComponent("TimerSystem", id, "Timer", args)
    \/ \E id \in 1..MaxDemoIds : \E damage \in Damages :
          /\ "HealthSystem" \in DOMAIN systems_
          /\ id \in DOMAIN systems_["HealthSystem"].entities_
          /\ has_component(systems_["HealthSystem"].entities_[id], "Health")
          /\ is_alive(systems_["HealthSystem"].entities_[id]
                         .components_["Health"])
          /\ HealthDamage("HealthSystem", id, damage)
    \/ \E delta \in Deltas : WorldTick(delta)

SpecDemo == Init /\ [][NextDemo]_vars

\* a World whose caller registers the MovementSystem first and the
\* HealthSystem second, then initializes and ticks
NextOrder ==
    \/ systems_ = EmptyMap /\ WorldAddSystem("MovementSystem")
    \/ DOMAIN systems_ = {"MovementSystem"} /\ WorldAddSystem("HealthSystem")
    \/ \E t \in SysTypes : IdsLeft(t, MaxWorldIds) /\ SystemAddEntity(t)
    \/ WorldInitialize
    \/ \E delta \in Deltas : WorldTick(delta)

SpecOrder == Init /\ [][NextOrder]_vars

\* one system on which add_entity is called often enough for the counter
\* to wrap, its caller removing entities so that few are alive at a time
NextWrap ==
    \/ WorldAddSystem("MovementSystem")
    \/ /\ "MovementSystem" \in DOMAIN systems_
       /\ Len(issued["MovementSystem"]) <= EntityIdLimit
       /\ Cardinality(DOMAIN systems_["MovementSystem"].entities_) < MaxLive
       /\ SystemAddEntity("MovementSystem")
    \/ \E id \in 0..(EntityIdLimit - 1) :
          /\ "MovementSystem" \in DOMAIN systems_
          /\ has_entity(systems_["MovementSystem"], id)
          /\ SystemRemoveEntity("MovementSystem", id)

SpecWrap == Init /\ [][NextWrap]_vars

\* one HealthSystem whose entities are given a small or the largest
\* max_hp, blows dealt to living entities, and the World's ticks
NextRegen ==
    \/ WorldAddSystem("HealthSystem")
    \/ IdsLeft("HealthSystem", MaxWorldIds) /\ SystemAddEntity("HealthSystem")
    \/ \E id \in 1..MaxWorldIds : \E max_hp \in {2, IntMax} :
          EntityAddComponent("HealthSystem", id, "Health", <<max_hp>>)
    \/ \E id \in 1..MaxWorldIds : \E damage \in Damages :
          /\ "HealthSystem" \in DOMAIN systems_
          /\ id \in DOMAIN systems_["HealthSystem"].entities_
          /\ has_component(systems_["HealthSystem"].entities_[id], "Health")
          /\ is_alive(systems_["HealthSystem"].entities_[id]
                         .components_["Health"])
          /\ HealthDamage("HealthSystem", id, damage)
    \/ \E delta \in Deltas : WorldTick(delta)

SpecRegen == Init /\ [][NextRegen]_vars

\* the number of entities of the registered system t that have an AI
Enemies(t) ==
    Cardinality({id \in DOMAIN systems_[t].entities_ :
                    has_component(systems_[t].entities_[id], "AI")})

\* the states of AI::State
AIStates == {"Idle", "Patrolling", "Chasing", "Attacking"}

\* an AISystem holding enemies at the origin, each with its patrol points
\* and all with the same target identifier, and players at a distance, the
\* caller removing the Position of a player or the Velocity of an enemy,
\* and the World's ticks
\* of one second
NextAI ==
    \/ WorldAddSystem("AISystem")
    \/ \E x \in 1..3 :
          IdsLeft("AISystem", MaxDemoIds) /\ CreatePlayer("AISystem", x, 60)
    \/ \E state \in AIStates : \E points \in {<<>>, <<0, 0>>, <<3>>} :
          /\ IdsLeft("AISystem", MaxDemoIds)
          /\ Enemies("AISystem") < MaxWorldIds
          /\ CreateEnemy("AISystem", 0, 60, 2, state, points)
    \/ \E id \in 1..MaxDemoIds :
          /\ "AISystem" \in DOMAIN systems_
          /\ id \in DOMAIN systems_["AISystem"].entities_
          /\ ~has_component(systems_["AISystem"].entities_[id], "AI")
          /\ EntityRemoveComponent("AISystem", id, "Position")
    \/ \E id \in 1..MaxDemoIds :
          /\ "AISystem" \in DOMAIN systems_
          /\ id \in DOMAIN systems_["AISystem"].entities_
          /\ has_component(systems_["AISystem"].entities_[id], "AI")
          /\ EntityRemoveComponent("AISystem", id, "Velocity")
    \/ WorldTick(1)

SpecAI == Init /\ [][NextAI]_vars

\* the demo's main: a MovementSystem holding players and an AISystem whose
\* enemies are created Chasing or Attacking the identifier of a player; the
\* AISystem may hold players of its own, and its caller removes the
\* Velocity of enemies
NextAIWorld ==
    \/ \E t \in {"MovementSystem", "AISystem"} : WorldAddSystem(t)
    \/ \E t \in {"MovementSystem", "AISystem"} :
          IdsLeft(t, MaxDemoIds) /\ CreatePlayer(t, 1, 60)
    \/ \E state \in {"Chasing", "Attacking"} : \E target_id \in {1, 2} :
          /\ IdsLeft("AISystem", MaxDemoIds)
          /\ Enemies("AISystem") < MaxWorldIds
          /\ CreateEnemy("AISystem", 0, 60, target_id, state, <<>>)
    \/ \E id \in 1..MaxDemoIds :
          /\ "AISystem" \in DOMAIN systems_
          /\ id \in DOMAIN systems_["AISystem"].entities_
          /\ has_component(systems_["AISystem"].entities_[id], "AI")
          /\ EntityRemoveComponent("AISystem", id, "Velocity")
    \/ WorldTick(1)

SpecAIWorld == Init /\ [][NextAIWorld]_vars

\* a World whose caller removes systems and adds them again, and an
\* entity's Health, first added with 2 hit points, that its caller removes
\* and at once adds again with 0 hit points
NextReadd ==
    \/ \E t \in SysTypes : WorldAddSystem(t)
    \/ \E t \in SysTypes : WorldRemoveSystem(t)
    \/ \E t \in SysTypes : IdsLeft(t, MaxWorldIds) /\ SystemAddEntity(t)
    \/ \E t \in SysTypes : \E id \in 1..MaxWorldIds :
          /\ last.op # "remove_component"
          /\ EntityAddComponent(t, id, "Health", <<2>>)
    \/ \E t \in SysTypes : \E id \in 1..MaxWorldIds :
          EntityRemoveComponent(t, id, "Health")
    \/ \E t \in SysTypes : \E id \in 1..MaxWorldIds :
          /\ last.op = "remove_component"
          /\ last.sys = t /\ last.id = id /\ last.result
          /\ EntityAddComponent(t, id, "Health", <<0>>)

SpecReadd == Init /\ [][NextReadd]_vars

----------------------------------------------------------------------------
(* Properties                                                              *)

\* C1: in every system the identifiers add_entity returned so far are, in
\* call order, strictly increasing (hence pairwise distinct) and start at 1,
\* whatever remove_entity calls came in between, and the identifier handed
\* out last is not one an earlier call returned.
C1_IdsDistinctIncreasingFromOne ==
    \A t \in SysTypes :
        /\ issued[t] # <<>> => issued[t][1] = 1
        /\ \A i, j \in DOMAIN issued[t] : i < j => issued[t][i] < issued[t][j]

\* C1 happens: a second identifier was handed out after the entity holding an
\* earlier one was removed
C1_Witness ==
    /\ last.op = "add_entity"
    /\ Len(issued[last.sys]) >= 2
    /\ 1 \notin DOMAIN systems_[last.sys].entities_

\* C2: add_component<T> on an entity that holds a T returns null and changes
\* nothing: the T, its fields, its owner, the other components, the other
\* entities and the systems are as before.
C2_DuplicateAddComponentIsNoOp ==
    [][(/\ last'.op = "add_component"
        /\ has_component(systems_[last'.sys].entities_[last'.id], last'.comp))
       => /\ last'.result = nullptr
          /\ systems_' = systems_]_vars

\* C2 happens: a second add_component<Position> with other arguments was
\* refused, and the entity also holds a Health
C2_Witness ==
    /\ last.op = "add_component"
    /\ last.comp = "Position"
    /\ last.result = nullptr
    /\ LET e == systems_[last.sys].entities_[last.id]
       IN  /\ <<e.components_["Position"].x, e.components_["Position"].y>>
                  # last.args
           /\ has_component(e, "Health")

\* C3: add_system<T> registers a new system and returns it when no T is
\* registered; when a T is registered it returns null and leaves the
\* registry, with the registered T and its entities, unchanged.
C3_AddSystemOncePerType ==
    [][last'.op = "add_system"
       => IF last'.sys \in DOMAIN systems_
          THEN /\ last'.result = nullptr
               /\ systems_' = systems_
          ELSE /\ last'.result = <<last'.sys>>
               /\ DOMAIN systems_' = DOMAIN systems_ \cup {last'.sys}
               /\ systems_'[last'.sys] = NewSystem
               /\ \A t \in DOMAIN systems_ : systems_'[t] = systems_[t]]_vars

\* C3 happens: a second add_system<T> was refused while the registered T
\* holds an entity
C3_Witness ==
    /\ last.op = "add_system"
    /\ last.result = nullptr
    /\ DOMAIN systems_[last.sys].entities_ # {}

\* C4 as stated: a registered system's initialize() has been invoked at most
\* once, and it has been invoked before the system is ticked.
C4_InitializeExactlyOnceBeforeTick ==
    \A t \in DOMAIN systems_ :
        /\ calls[t].initialize <= 1
        /\ calls[t].tick > 0 => calls[t].initialize > 0

\* C4 as amended: only World::initialize invokes initialize(); one call
\* invokes it at most once on a system and only on registered systems, and
\* exactly once on every registered system when the call returns true.  No
\* other operation invokes it (World::tick in particular).
C4_InitializeOncePerWorldInitialize ==
    [][/\ \A t \in SysTypes :
             calls'[t].initialize > calls[t].initialize
             => /\ calls'[t].initialize = calls[t].initialize + 1
                /\ last'.op = "initialize"
                /\ t \in DOMAIN systems_
                /\ Cardinality({i \in DOMAIN last'.invoked :
                                   last'.invoked[i] = t}) = 1
       /\ (last'.op = "initialize" /\ last'.result)
             => \A t \in DOMAIN systems_ :
                    calls'[t].initialize = calls[t].initialize + 1]_vars

\* C4 happens: a second World::initialize() returned true and invoked
\* initialize() once more on both systems
C4_Witness ==
    /\ last.op = "initialize"
    /\ last.result
    /\ Len(last.invoked) = 2
    /\ \A t \in DOMAIN systems_ : calls[t].initialize = 2

\* C5: a system that left the registry (by remove_system<T>, by
\* World::shutdown() or by ~World) had shutdown() invoked exactly once, and a
\* registered one not yet: the operation that invokes shutdown() also erases
\* the system, which destroys it with the entities it holds, so it is never
\* shut down again; a destroyed World has no system left.
C5_ShutdownExactlyOnce ==
    /\ \A t \in SysTypes :
          /\ t \in DOMAIN systems_ => calls[t].shutdown = 0
          /\ t \in constructed \ DOMAIN systems_ => calls[t].shutdown = 1
    /\ ~alive => DOMAIN systems_ = {}

\* C5 happens: remove_system<T> shut down a system to which an entity had
\* been added, while the other system stays registered
C5_Witness ==
    /\ last.op = "remove_system"
    /\ last.result
    /\ issued[last.sys] # <<>>
    /\ calls[last.sys].shutdown = 1
    /\ DOMAIN systems_ # {}

\* C6: World::initialize visits the registered systems one at a time in the
\* iteration order, invokes initialize() on each one it visits, stops after
\* the first whose initialize() returns false, and returns true exactly when
\* the initialize() of every registered system returns true.
C6_InitializeStopsAtFirstFailure ==
    [][last'.op = "initialize"
       => LET order   == last'.order
              outcome == last'.outcome
              invoked == last'.invoked
          IN  /\ Range(order) = DOMAIN systems_
              /\ DOMAIN outcome = DOMAIN systems_
              /\ last'.result = (\A t \in DOMAIN systems_ : outcome[t])
              /\ \E n \in 0..Len(order) :
                    /\ invoked = SubSeq(order, 1, n)
                    /\ \A i \in 1..(n - 1) : outcome[order[i]]
                    /\ n < Len(order) => n >= 1 /\ ~outcome[order[n]]
              /\ \A t \in SysTypes :
                    calls'[t].initialize = calls[t].initialize +
                        (IF t \in Range(invoked) THEN 1 ELSE 0)]_vars

\* C6 happens: the first system visited failed and the second one was not
\* visited, although its initialize() would have returned true
C6_Witness ==
    /\ last.op = "initialize"
    /\ ~last.result
    /\ Len(last.order) = 2
    /\ Len(last.invoked) = 1
    /\ last.outcome[last.order[2]]

\* C7: a World::initialize() that returns false invokes no shutdown() and
\* leaves the registry and the systems in it unchanged, and the World::tick
\* that follows ticks every registered system, those whose initialize()
\* returned true included.
C7_FailedInitializeNoRollback ==
    [][/\ (last'.op = "initialize" /\ ~last'.result)
             => /\ systems_' = systems_
                /\ \A t \in SysTypes : calls'[t].shutdown = calls[t].shutdown
       /\ (last.op = "initialize" /\ ~last.result /\ last'.op = "tick")
             => \A i \in DOMAIN last.invoked :
                    LET t == last.invoked[i]
                    IN  /\ t \in DOMAIN systems_'
                        /\ calls'[t].tick = calls[t].tick + 1]_vars

\* C7 happens: World::initialize failed at the second system visited, and
\* the first one, which holds an entity, is still registered
C7_Witness ==
    /\ last.op = "initialize"
    /\ ~last.result
    /\ Len(last.invoked) = 2
    /\ last.invoked[1] \in DOMAIN systems_
    /\ DOMAIN systems_[last.invoked[1]].entities_ # {}
    /\ calls[last.invoked[1]].initialize = 1

\* C8: World::tick(delta) invokes tick exactly once on every registered
\* system and on no other, passes each the caller's delta, and does so
\* whether or not the system was initialized; the registry keeps its keys.
C8_TickEveryRegisteredSystemOnce ==
    [][last'.op = "tick"
       => /\ \A t \in SysTypes :
                /\ calls'[t].tick = calls[t].tick +
                       (IF t \in DOMAIN systems_ THEN 1 ELSE 0)
                /\ Cardinality({i \in DOMAIN last'.invoked :
                                   last'.invoked[i] = t})
                       = (IF t \in DOMAIN systems_ THEN 1 ELSE 0)
          /\ \A i \in DOMAIN last'.invoked : last'.passed[i] = last'.delta
          /\ DOMAIN systems_' = DOMAIN systems_]_vars

\* C8 happens: both systems were ticked by a World::tick although
\* World::initialize was never called for one of them
C8_Witness ==
    /\ last.op = "tick"
    /\ Len(last.invoked) = 2
    /\ \E t \in DOMAIN systems_ : calls[t].initialize = 0 /\ calls[t].tick > 0
    /\ \E t \in DOMAIN systems_ : calls[t].initialize > 0 /\ calls[t].tick > 0

\* C9: after World::shutdown() the registry is empty, and a World::shutdown()
\* that directly follows one invokes no hook and leaves the registry empty.
C9_ShutdownIdempotent ==
    [][/\ last'.op = "shutdown" => systems_' = EmptyMap
       /\ (last.op = "shutdown" /\ last'.op = "shutdown")
             => /\ systems_ = EmptyMap
                /\ systems_' = systems_
                /\ calls' = calls
                /\ last'.invoked = <<>>]_vars

\* C9 happens: World::shutdown() was called twice in a row, the first call
\* having shut down a system
C9_Witness ==
    /\ last.op = "shutdown"
    /\ last.again
    /\ \E t \in constructed : calls[t].shutdown = 1

\* C10 as stated: once World::shutdown() has been called, no World::initialize
\* or World::tick invokes a hook.
C10_ShutdownIsTerminal ==
    was_shut_down
    => ~(last.op \in {"initialize", "tick"} /\ last.invoked # <<>>)

\* C10 as amended: a system that was shut down (World::shutdown() shuts down
\* and destroys every registered system) has no hook invoked on it again;
\* only add_system<T>, which the World accepts after shutdown() as before,
\* starts a new system of its type, and World::initialize and World::tick
\* serve that one.
C10_ShutDownSystemsGetNoHooks ==
    [][/\ last'.op = "shutdown" => DOMAIN systems_' = {}
       /\ \A t \in SysTypes :
             calls[t].shutdown > 0
             => \/ calls'[t] = calls[t] /\ t \notin DOMAIN systems_'
                \/ /\ last'.op = "add_system"
                   /\ last'.sys = t
                   /\ calls'[t] = NoCalls]_vars

\* C10 happens: after World::shutdown() a system was added, initialized
\* and ticked
C10_Witness ==
    /\ was_shut_down
    /\ last.op = "tick"
    /\ \E t \in DOMAIN systems_ : calls[t].initialize > 0 /\ calls[t].tick > 0

\* C11: remove_system<T> on a registered T invokes its shutdown() once, while
\* it is still in the registry, then erases it and returns true; on a T not
\* registered it returns false, invokes no hook and leaves the registry as it
\* is.  The other systems and their hook counts are untouched either way.
C11_RemoveSystemShutsDownThenErases ==
    [][last'.op = "remove_system"
       => LET t == last'.sys
          IN  /\ IF t \in DOMAIN systems_
                 THEN /\ last'.result
                      /\ last'.hooked
                      /\ calls'[t].shutdown = calls[t].shutdown + 1
                      /\ DOMAIN systems_' = DOMAIN systems_ \ {t}
                 ELSE /\ ~last'.result
                      /\ calls' = calls
                      /\ systems_' = systems_
              /\ \A u \in SysTypes \ {t} :
                    /\ calls'[u] = calls[u]
                    /\ u \in DOMAIN systems_
                          => u \in DOMAIN systems_' /\ systems_'[u] = systems_[u]]_vars

\* C11 happens: remove_system<T> removed one system and left the other, which
\* holds an entity and was initialized, registered
C11_Witness ==
    /\ last.op = "remove_system"
    /\ last.result
    /\ \E u \in DOMAIN systems_ :
          /\ u # last.sys
          /\ DOMAIN systems_[u].entities_ # {}
          /\ calls[u].initialize > 0

\* C12: System::remove_entity(id) reports its outcome: when id is present the
\* entity is erased and the call returns true; when id is absent the call
\* returns false and the registry and the id counter are unchanged.
\* (Violated: the function is declared void and returns nothing.)
C12_RemoveEntityReportsOutcome ==
    [][last'.op = "remove_entity"
       => LET t == last'.sys
              id == last'.id
          IN  IF has_entity(systems_[t], id)
              THEN /\ ~has_entity(systems_'[t], id)
                   /\ last'.returned = <<TRUE>>
              ELSE /\ last'.returned = <<FALSE>>
                   /\ systems_'[t] = systems_[t]]_vars

\* C13: remove_component<T>() on an entity without a T returns false and
\* changes nothing; on an entity with a T it returns true, and afterwards
\* get_component<T>() is null and has_component<T>() is false.
C13_RemoveComponentOutcome ==
    [][last'.op = "remove_component"
       => LET t == last'.sys
              id == last'.id
              c == last'.comp
              before == systems_[t].entities_[id]
              after == systems_'[t].entities_[id]
          IN  IF has_component(before, c)
              THEN /\ last'.result = TRUE
                   /\ get_component(<<t, id>>, after, c) = nullptr
                   /\ ~has_component(after, c)
              ELSE /\ last'.result = FALSE
                   /\ systems_' = systems_]_vars

\* C13 happens: a component was removed from an entity that keeps another one
C13_Witness ==
    /\ last.op = "remove_component"
    /\ last.result = TRUE
    /\ systems_[last.sys].entities_[last.id].components_ # EmptyMap

\* C14: on an entity without a T, add_component<T>(args...) returns a
\* non-null pointer; a get_component<T>() right after it returns that same
\* instance, and the instance carries the constructor arguments as payload.
C14_AddComponentThenGet ==
    [][(/\ last'.op = "add_component"
        /\ ~has_component(systems_[last'.sys].entities_[last'.id], last'.comp))
       => LET t == last'.sys
              id == last'.id
              c == last'.comp
              args == last'.args
              after == systems_'[t].entities_[id]
              got == get_component(<<t, id>>, after, c)
          IN  /\ last'.result # nullptr
              /\ got = last'.result
              /\ got = <<t, id, c>>
              /\ c \in DOMAIN after.components_
              /\ c = "Position" => /\ after.components_[c].x = args[1]
                                   /\ after.components_[c].y = args[2]
              /\ c = "Health" => /\ after.components_[c].max_health = args[1]
                                 /\ after.components_[c].current_health = args[1]]_vars

\* C14 happens: a Position with unequal coordinates was added to an entity
\* that already held a Health
C14_Witness ==
    /\ last.op = "add_component"
    /\ last.comp = "Position"
    /\ last.result # nullptr
    /\ last.args[1] # last.args[2]
    /\ has_component(systems_[last.sys].entities_[last.id], "Health")

\* C15: every entity keeps the identifier it was created with (the one
\* add_entity issued and filed it under), holds at most one component per
\* type key, each filed under its own type, and is the owner of every
\* component it holds.
C15_EntityInvariants ==
    \A t \in DOMAIN systems_ : \A id \in DOMAIN systems_[t].entities_ :
        LET e == systems_[t].entities_[id]
        IN  /\ get_id(e) = id
            /\ id \in Range(issued[t])
            /\ DOMAIN e.components_ \subseteq CompTypes
            /\ \A c \in DOMAIN e.components_ :
                  /\ e.components_[c].owner = <<t, id>>
                  /\ DOMAIN e.components_[c]
                        = DOMAIN NewComponent(c, CHOOSE a \in CompArgs(c) : TRUE)

\* C15 happens: the second entity of a system holds a component of each type
\* while the first entity is gone
C15_Witness ==
    \E t \in DOMAIN systems_ :
        /\ DOMAIN systems_[t].entities_ = {2}
        /\ DOMAIN systems_[t].entities_[2].components_ = CompTypes

\* C16: ownership is exclusive and cascading.  Every live component is held
\* by exactly the one live entity that is its owner, and removing an entity
\* takes all its components with it: after remove_entity(id) neither the
\* entity nor any component owned by it is left, so no component outlives
\* its owner.
C16_OwnershipExclusiveAndCascading ==
    [][LET Live(m) == {p \in SysTypes \X (1..(MaxIds + 1)) :
                          /\ p[1] \in DOMAIN m
                          /\ p[2] \in DOMAIN m[p[1]].entities_}
           Held(m, p) == m[p[1]].entities_[p[2]].components_
           removed == <<last'.sys, last'.id>>
       IN  /\ \A p \in Live(systems_') : \A c \in DOMAIN Held(systems_', p) :
                 Held(systems_', p)[c].owner = p
           /\ (last'.op = "remove_entity" /\ last'.found)
                 => /\ removed \in Live(systems_)
                    /\ removed \notin Live(systems_')
                    /\ \A p \in Live(systems_') :
                          /\ p \in Live(systems_)
                          /\ Held(systems_', p) = Held(systems_, p)
                          /\ \A c \in DOMAIN Held(systems_', p) :
                                Held(systems_', p)[c].owner # removed]_vars

\* C16 happens: an entity holding a component of each type was removed while
\* another entity with a component of its own stays
C16_Witness ==
    /\ last.op = "remove_entity"
    /\ last.found
    /\ last.destroyed = CompTypes
    /\ \E id \in DOMAIN systems_[last.sys].entities_ :
          systems_[last.sys].entities_[id].components_ # EmptyMap

\* C17: has_component<T>() is true exactly when get_component<T>() is not
\* null, for every entity and type in every state reached, and for the
\* results the two calls hand back; neither call changes the entity.
C17_HasComponentIffGetComponent ==
    [][/\ \A t \in DOMAIN systems_' : \A id \in DOMAIN systems_'[t].entities_ :
             \A c \in CompTypes :
                LET e == systems_'[t].entities_[id]
                IN  has_component(e, c)
                       <=> get_component(<<t, id>>, e, c) # nullptr
       /\ last'.op \in {"has_component", "get_component"}
             => LET e == systems_[last'.sys].entities_[last'.id]
                    self == <<last'.sys, last'.id>>
                IN  /\ systems_' = systems_
                    /\ last'.op = "has_component"
                          => (last'.result
                                <=> get_component(self, e, last'.comp) # nullptr)
                    /\ last'.op = "get_component"
                          => (last'.result # nullptr
                                <=> has_component(e, last'.comp))]_vars

\* C17 happens: get_component<T> was asked of an entity that lacks T and
\* holds the other type
C17_Witness ==
    /\ last.op = "get_component"
    /\ last.result = nullptr
    /\ systems_[last.sys].entities_[last.id].components_ # EmptyMap

\* C18: has_entity(id) is true exactly when get_entity(id) is not null;
\* the entity get_entity(id) returns has get_id() = id; and the two lookups
\* leave the registry and the id counter as they were.
C18_HasEntityIffGetEntity ==
    [][/\ \A t \in DOMAIN systems_' : \A id \in 0..(MaxIds + 1) :
             LET sys == systems_'[t]
                 p == get_entity(t, sys, id)
             IN  /\ has_entity(sys, id) <=> p # nullptr
                 /\ p # nullptr
                       => get_id(systems_'[p[1]].entities_[p[2]]) = id
       /\ last'.op \in {"has_entity", "get_entity"}
             => LET sys == systems_[last'.sys]
                IN  /\ systems_' = systems_
                    /\ last'.op = "has_entity"
                          => (last'.result
                                <=> get_entity(last'.sys, sys, last'.id) # nullptr)
                    /\ last'.op = "get_entity"
                          => /\ last'.result # nullptr
                                  <=> has_entity(sys, last'.id)
                             /\ last'.result # nullptr
                                  => get_id(systems_'[last'.result[1]]
                                              .entities_[last'.result[2]])
                                       = last'.id]_vars

\* C18 happens: get_entity(2) found the second entity after the first one
\* was removed
C18_Witness ==
    /\ last.op = "get_entity"
    /\ last.id = 2
    /\ last.result # nullptr
    /\ ~has_entity(systems_[last.sys], 1)

\* C19: add_component<T> and remove_component<T> on an entity leave every
\* component of another type U on that entity as it was (present or absent,
\* same payload and owner), leave the entity's id, and leave every other
\* entity, the set of entities and the id counter unchanged.
C19_ComponentOpsAreLocal ==
    [][last'.op \in {"add_component", "remove_component"}
       => LET t == last'.sys
              id == last'.id
              before == systems_[t].entities_[id]
              after == systems_'[t].entities_[id]
          IN  /\ DOMAIN systems_' = DOMAIN systems_
              /\ \A u \in DOMAIN systems_ \ {t} : systems_'[u] = systems_[u]
              /\ systems_'[t].next_entity_id_ = systems_[t].next_entity_id_
              /\ DOMAIN systems_'[t].entities_ = DOMAIN systems_[t].entities_
              /\ \A j \in DOMAIN systems_[t].entities_ \ {id} :
                    systems_'[t].entities_[j] = systems_[t].entities_[j]
              /\ get_id(after) = get_id(before)
              /\ \A u \in CompTypes \ {last'.comp} :
                    /\ has_component(after, u) <=> has_component(before, u)
                    /\ has_component(before, u)
                          => after.components_[u] = before.components_[u]]_vars

\* C19 happens: a component was removed from an entity that keeps one of the
\* other type, while another entity holds components too
C19_Witness ==
    /\ last.op = "remove_component"
    /\ last.result = TRUE
    /\ systems_[last.sys].entities_[last.id].components_ # EmptyMap
    /\ \E j \in DOMAIN systems_[last.sys].entities_ \ {last.id} :
          systems_[last.sys].entities_[j].components_ # EmptyMap

\* C20: entity ids are local to a system.  A system starts with its own
\* counter at 1 and add_entity draws from that counter alone; add_entity and
\* remove_entity on one system leave the counter and the registry of every
\* other system unchanged, so two systems may both hold an entity 1.
C20_IdsLocalToSystem ==
    [][/\ (last'.op = "add_system" /\ last'.result # nullptr)
             => systems_'[last'.sys] = [next_entity_id_ |-> 1,
                                        entities_ |-> EmptyMap]
       /\ last'.op = "add_entity"
             => /\ last'.result[2] = systems_[last'.sys].next_entity_id_
                /\ systems_'[last'.sys].next_entity_id_
                      = systems_[last'.sys].next_entity_id_ + 1
       /\ last'.op \in {"add_entity", "remove_entity"}
             => /\ DOMAIN systems_' = DOMAIN systems_
                /\ \A u \in DOMAIN systems_ \ {last'.sys} :
                      systems_'[u] = systems_[u]]_vars

\* C20 happens: add_entity returned id 1 on one system while the other
\* system holds an entity 1 of its own
C20_Witness ==
    /\ last.op = "add_entity"
    /\ last.result[2] = 1
    /\ \A u \in SysTypes :
          u \in DOMAIN systems_ /\ has_entity(systems_[u], 1)

\* C21: add_entity() always succeeds: it returns the address of a new entity
\* with no components whose id is the counter's value before the call, that
\* entity is in the registry under that id, the counter has advanced by
\* exactly one, and every entity stored before is unchanged.
C21_AddEntityAlwaysSucceeds ==
    [][last'.op = "add_entity"
       => LET t == last'.sys
              before == systems_[t]
              after == systems_'[t]
              id == before.next_entity_id_
          IN  /\ last'.result # nullptr
              /\ last'.result = <<t, id>>
              /\ get_entity(t, after, id) = last'.result
              /\ get_id(after.entities_[id]) = id
              /\ after.entities_[id].components_ = EmptyMap
              /\ after.next_entity_id_ = before.next_entity_id_ + 1
              /\ DOMAIN after.entities_ = DOMAIN before.entities_ \cup {id}
              /\ id \notin DOMAIN before.entities_
              /\ \A j \in DOMAIN before.entities_ :
                    after.entities_[j] = before.entities_[j]]_vars

\* C21 happens: add_entity made entity 2 while entity 1 holds a component
\* of each type
C21_Witness ==
    /\ last.op = "add_entity"
    /\ last.result[2] = 2
    /\ has_entity(systems_[last.sys], 1)
    /\ DOMAIN systems_[last.sys].entities_[1].components_ = CompTypes
    /\ systems_[last.sys].entities_[2].components_ = EmptyMap

\* C22: MovementSystem::tick(delta) adds velocity * delta to the position of
\* every entity of the system that has both a Position and a Velocity, and
\* leaves every entity lacking either one exactly as it was; it adds and
\* removes no entity and no component, and changes no velocity.
C22_MovementTick ==
    [][(last'.op = "tick" /\ "MovementSystem" \in Range(last'.invoked))
       => LET before == systems_["MovementSystem"]
              after == systems_'["MovementSystem"]
              delta == last'.delta
          IN  /\ DOMAIN after.entities_ = DOMAIN before.entities_
              /\ after.next_entity_id_ = before.next_entity_id_
              /\ \A id \in DOMAIN before.entities_ :
                    LET e == before.entities_[id]
                        f == after.entities_[id]
                    IN  IF has_component(e, "Position")
                           /\ has_component(e, "Velocity")
                        THEN /\ get_id(f) = get_id(e)
                             /\ DOMAIN f.components_ = DOMAIN e.components_
                             /\ f.components_["Velocity"]
                                   = e.components_["Velocity"]
                             /\ f.components_["Position"].owner
                                   = e.components_["Position"].owner
                             /\ f.components_["Position"].x
                                   = e.components_["Position"].x
                                     + e.components_["Velocity"].dx * delta
                             /\ f.components_["Position"].y
                                   = e.components_["Position"].y
                                     + e.components_["Velocity"].dy * delta
                        ELSE f = e]_vars

\* C22 happens: a tick with delta 2 moved an entity from (11, 22) to
\* (13, 26), while an entity with a Position and no Velocity stays at
\* (10, 20)
C22_Witness ==
    /\ last.op = "tick"
    /\ last.delta = 2
    /\ "MovementSystem" \in DOMAIN systems_
    /\ \E i, j \in DOMAIN systems_["MovementSystem"].entities_ :
          LET e == systems_["MovementSystem"].entities_[i]
              f == systems_["MovementSystem"].entities_[j]
          IN  /\ has_component(e, "Position") /\ has_component(e, "Velocity")
              /\ e.components_["Position"].x = 13
              /\ e.components_["Position"].y = 26
              /\ has_component(f, "Position") /\ ~has_component(f, "Velocity")
              /\ f.components_["Position"].x = 10
              /\ f.components_["Position"].y = 20

\* C23: every entity of a HealthSystem whose Health is <= 0 when the
\* system's tick runs is out of that system's registry when the tick
\* returns: has_entity(id) is false and get_entity(id) is null afterwards.
C23_DeadEntitiesRemovedByTick ==
    [][(last'.op = "tick" /\ "HealthSystem" \in Range(last'.invoked))
       => LET before == systems_["HealthSystem"]
              after == systems_'["HealthSystem"]
          IN  \A id \in DOMAIN before.entities_ :
                 (/\ has_component(before.entities_[id], "Health")
                  /\ before.entities_[id].components_["Health"]
                        .current_health <= 0)
                 => /\ ~has_entity(after, id)
                    /\ get_entity("HealthSystem", after, id) = nullptr]_vars

\* C23 happens: a tick took entity 1 out of the HealthSystem and left
\* entity 2, which has health left
C23_Witness ==
    /\ last.op = "tick"
    /\ "HealthSystem" \in DOMAIN systems_
    /\ issued["HealthSystem"] = <<1, 2>>
    /\ ~has_entity(systems_["HealthSystem"], 1)
    /\ has_entity(systems_["HealthSystem"], 2)
    /\ has_component(systems_["HealthSystem"].entities_[2], "Health")
    /\ is_alive(systems_["HealthSystem"].entities_[2].components_["Health"])

C25_EmptyRegistryIsHarmless ==
    [][(systems_ = EmptyMap /\ last'.op \in {"tick", "shutdown", "initialize"})
       => /\ last'.invoked = <<>>
          /\ calls' = calls
          /\ systems_' = systems_
          /\ alive' = alive
          /\ last'.op = "initialize" => last'.result = TRUE]_vars

\* C25 happens: initialize() was called on the empty registry a shutdown
\* left behind, after systems had been shut down, and returned true
C25_Witness ==
    /\ last.op = "initialize"
    /\ last.invoked = <<>>
    /\ last.result = TRUE
    /\ was_shut_down
    /\ systems_ = EmptyMap
    /\ \E t \in SysTypes : calls[t].shutdown > 0

\* C26: with the identifier counter an unsigned integer of width w that is
\* incremented modulo 2^w, every identifier add_entity assigns is strictly
\* positive and is held by no live entity of that system, so the entity
\* add_entity returns is the one stored in the registry under that id.
\* (Violated once the counter has wrapped: 0 is assigned, then ids that
\* may still be alive, for which emplace inserts nothing.)
C26_IdsPositiveAndFreshModuloWidth ==
    [][last'.op = "add_entity"
       => LET t == last'.sys
              id == systems_[t].next_entity_id_
          IN  /\ id > 0
              /\ ~has_entity(systems_[t], id)
              /\ last'.result = <<t, id>>
              /\ get_entity(t, systems_'[t], id) = last'.result]_vars

\* C27: in every state a System reaches through add_entity and
\* remove_entity, every key k of its registry has 1 <= k < next_entity_id_,
\* the entity stored under k has get_id() = k, and the number of live
\* entities is at most next_entity_id_ - 1.
C27_RegistryKeysBelowCounter ==
    \A t \in DOMAIN systems_ :
        LET sys == systems_[t]
        IN  /\ \A k \in DOMAIN sys.entities_ :
                  /\ 1 <= k
                  /\ k < sys.next_entity_id_
                  /\ get_id(sys.entities_[k]) = k
            /\ Cardinality(DOMAIN sys.entities_) <= sys.next_entity_id_ - 1

\* C27 happens: two identifiers were issued and only the second entity is
\* left, so the registry holds fewer entities than the counter allows
C27_Witness ==
    \E t \in DOMAIN systems_ :
        /\ systems_[t].next_entity_id_ = 3
        /\ DOMAIN systems_[t].entities_ = {2}
        /\ last.op = "remove_entity"
        /\ last.found

\* C28: accessors are stable.  Across an add_entity and across a
\* remove_entity of another id, the pointer add_entity returned for a live
\* entity still finds that entity, with the same id and the same
\* components, and the pointers to its components still find them; across
\* add_component<T> and remove_component<T> the pointer to a component of
\* another type still finds the same component.  An accessor ends only with
\* remove_entity of its own id or remove_component of its own type.
C28_AccessorsStable ==
    [][LET Stable(t, id) ==
               LET e == systems_[t].entities_[id]
                   self == <<t, id>>
               IN  /\ has_entity(systems_'[t], id)
                   /\ get_entity(t, systems_'[t], id) = self
                   /\ get_id(systems_'[t].entities_[id]) = get_id(e)
                   /\ \A c \in DOMAIN e.components_ :
                         (last'.op \in {"add_component", "remove_component"}
                            /\ last'.id = id /\ last'.comp = c)
                         \/ (/\ get_component(self, systems_'[t].entities_[id], c)
                                  = get_component(self, e, c)
                             /\ systems_'[t].entities_[id].components_[c]
                                  = e.components_[c])
       IN  last'.op \in {"add_entity", "remove_entity",
                         "add_component", "remove_component"}
           => \A t \in DOMAIN systems_ : \A id \in DOMAIN systems_[t].entities_ :
                 (last'.op = "remove_entity" /\ last'.sys = t /\ last'.id = id)
                 \/ Stable(t, id)]_vars

\* C28 happens: entity 1 was removed while entity 2, which holds a
\* component of each type, stays where its accessors point
C28_Witness ==
    /\ last.op = "remove_entity"
    /\ last.id = 1
    /\ last.found
    /\ has_entity(systems_[last.sys], 2)
    /\ DOMAIN systems_[last.sys].entities_[2].components_ = CompTypes

\* C29: HealthSystem::tick and TimerSystem::tick erase nothing from the
\* registry while they scan it: the scan ends with every entity it started
\* with, and the removals follow it.  The entities one HealthSystem::tick
\* removes are exactly those whose Health is <= 0 when scanned; an entity
\* with positive health or without a Health is never removed.
C29_RemovalsFollowTheScan ==
    [][last'.op = "tick"
       => /\ "HealthSystem" \in Range(last'.invoked)
             => LET before == systems_["HealthSystem"]
                    after == systems_'["HealthSystem"]
                    Dead(m) == {id \in DOMAIN m :
                                  /\ has_component(m[id], "Health")
                                  /\ m[id].components_["Health"]
                                        .current_health <= 0}
                IN  /\ \A scan \in HealthSystemScan(before, last'.delta) :
                          /\ DOMAIN scan.system.entities_
                                = DOMAIN before.entities_
                          /\ scan.entities_to_remove
                                = Dead(scan.system.entities_)
                    /\ \E scan \in HealthSystemScan(before, last'.delta) :
                          /\ DOMAIN before.entities_ \ DOMAIN after.entities_
                                = scan.entities_to_remove
                          /\ \A id \in DOMAIN after.entities_ :
                                after.entities_[id] = scan.system.entities_[id]
                    /\ DOMAIN before.entities_ \ DOMAIN after.entities_
                          = Dead(before.entities_)
          /\ "TimerSystem" \in Range(last'.invoked)
             => LET before == systems_["TimerSystem"]
                    after == systems_'["TimerSystem"]
                IN  /\ \A scan \in TimerSystemScan(before, last'.delta) :
                          DOMAIN scan.system.entities_ = DOMAIN before.entities_
                    /\ \E scan \in TimerSystemScan(before, last'.delta) :
                          /\ DOMAIN before.entities_ \ DOMAIN after.entities_
                                = scan.entities_to_process
                          /\ \A id \in DOMAIN after.entities_ :
                                after.entities_[id]
                                   = scan.system.entities_[id]]_vars

\* C29 happens: a tick took entity 1 out of the HealthSystem and left
\* entity 2, which has no Health
C29_Witness ==
    /\ last.op = "tick"
    /\ "HealthSystem" \in DOMAIN systems_
    /\ issued["HealthSystem"] = <<1, 2>>
    /\ DOMAIN systems_["HealthSystem"].entities_ = {2}
    /\ ~has_component(systems_["HealthSystem"].entities_[2], "Health")

\* C30: HealthSystem regeneration, with integer health and a non-negative
\* delta, is applied only to entities with 0 < current_health < max_health;
\* it never lowers current_health, never raises it above max_health, and
\* never changes an entity whose current_health is <= 0 or equal to
\* max_health (so a tick removes no entity that had health left).
\* (Violated: current_health + static_cast<int>(rate * delta) overflows int
\* when max_health is within that amount of the largest int.)
C30_RegenerationWithinBounds ==
    [][(last'.op = "tick" /\ "HealthSystem" \in Range(last'.invoked))
       => LET before == systems_["HealthSystem"]
              after == systems_'["HealthSystem"]
          IN  \A id \in DOMAIN before.entities_ :
                 has_component(before.entities_[id], "Health")
                 => LET h == before.entities_[id].components_["Health"]
                    IN  IF has_entity(after, id)
                        THEN LET g == after.entities_[id].components_["Health"]
                             IN  /\ g.current_health >= h.current_health
                                 /\ g.current_health <= h.max_health
                                 /\ g.max_health = h.max_health
                                 /\ (\/ h.current_health <= 0
                                     \/ h.current_health = h.max_health)
                                       => g = h
                        ELSE h.current_health <= 0]_vars

\* C31: TimerSystem::tick(delta) adds delta to the elapsed_time of every
\* entity of the system that has a Timer.  An entity is removed in that
\* tick exactly when its Timer has auto_remove set and elapsed_time >=
\* duration after the update; an entity whose Timer has auto_remove false,
\* or that has no Timer, stays, the latter unchanged.
C31_TimerTick ==
    [][(last'.op = "tick" /\ "TimerSystem" \in Range(last'.invoked))
       => LET before == systems_["TimerSystem"]
              after == systems_'["TimerSystem"]
          IN  /\ DOMAIN after.entities_ \subseteq DOMAIN before.entities_
              /\ after.next_entity_id_ = before.next_entity_id_
              /\ \A id \in DOMAIN before.entities_ :
                    LET e == before.entities_[id]
                    IN  IF has_component(e, "Timer")
                        THEN LET timer == e.components_["Timer"]
                                 elapsed == timer.elapsed_time + last'.delta
                             IN  /\ ~has_entity(after, id)
                                       <=> (timer.auto_remove
                                            /\ elapsed >= timer.duration)
                                 /\ has_entity(after, id)
                                       => after.entities_[id] =
                                            [e EXCEPT !.components_["Timer"]
                                                        .elapsed_time = elapsed]
                        ELSE /\ has_entity(after, id)
                             /\ after.entities_[id] = e]_vars

\* C31 happens: a tick took entity 1 out of the TimerSystem and left
\* entity 2, whose Timer is finished and has auto_remove false
C31_Witness ==
    /\ last.op = "tick"
    /\ "TimerSystem" \in DOMAIN systems_
    /\ issued["TimerSystem"] = <<1, 2>>
    /\ DOMAIN systems_["TimerSystem"].entities_ = {2}
    /\ has_component(systems_["TimerSystem"].entities_[2], "Timer")
    /\ is_finished(systems_["TimerSystem"].entities_[2].components_["Timer"])
    /\ ~systems_["TimerSystem"].entities_[2].components_["Timer"].auto_remove

\* C32: a tick changes the AI state only of entities of the AISystem that
\* have an AI, a Position and a Velocity, and only along these transitions:
\* Idle to Patrolling when the patrol points are not empty; Patrolling to
\* Idle when they are empty; Chasing to Idle when the target or its Position
\* is missing; Chasing to Patrolling when the target is farther than
\* detection_range; Chasing to Attacking when it is nearer than 2; Attacking
\* to Idle when the target is missing or its health is <= 0 after the
\* damage; Attacking to Chasing when the target is farther than 2.  In
\* particular no tick moves an AI from Idle or Patrolling to Chasing or
\* Attacking.
C32_AITransitions ==
    [][(last'.op = "tick" /\ "AISystem" \in DOMAIN systems_) =>
        \A id \in DOMAIN systems_["AISystem"].entities_ :
            LET sys == systems_["AISystem"]
                e == sys.entities_[id]
                after == systems_'["AISystem"]
                old == e.components_["AI"].current_state
                new == after.entities_[id].components_["AI"].current_state
                ai == e.components_["AI"]
                target_id == ai.target_entity_id
                found == target_id \in DOMAIN sys.entities_
                located == /\ found
                           /\ has_component(sys.entities_[target_id], "Position")
                square ==
                    LET tp == sys.entities_[target_id].components_["Position"]
                        pos == e.components_["Position"]
                    IN  (tp.x - pos.x) * (tp.x - pos.x)
                            + (tp.y - pos.y) * (tp.y - pos.y)
                killed ==
                    /\ found
                    /\ has_component(after.entities_[target_id], "Health")
                    /\ after.entities_[target_id].components_["Health"]
                           .current_health <= 0
            IN  /\ id \in DOMAIN after.entities_
                /\ has_component(e, "AI") =
                       has_component(after.entities_[id], "AI")
                /\ (has_component(e, "AI") /\ new # old) =>
                       /\ has_component(e, "Position")
                       /\ has_component(e, "Velocity")
                       /\ \/ /\ old = "Idle" /\ new = "Patrolling"
                             /\ ai.patrol_points # <<>>
                          \/ /\ old = "Patrolling" /\ new = "Idle"
                             /\ ai.patrol_points = <<>>
                          \/ /\ old = "Chasing" /\ new = "Idle"
                             /\ ~located
                          \/ /\ old = "Chasing" /\ new = "Patrolling"
                             /\ located
                             /\ square > ai.detection_range * ai.detection_range
                          \/ /\ old = "Chasing" /\ new = "Attacking"
                             /\ located
                             /\ square < 2 * 2
                          \/ /\ old = "Attacking" /\ new = "Idle"
                             /\ ~found \/ killed
                          \/ /\ old = "Attacking" /\ new = "Chasing"
                             /\ located
                             /\ square > 2 * 2]_vars

\* a tick has just run and left an AI Idle whose target it killed
C32_Witness ==
    /\ last.op = "tick"
    /\ "AISystem" \in DOMAIN systems_
    /\ \E id \in DOMAIN systems_["AISystem"].entities_ :
          LET sys == systems_["AISystem"]
              e == sys.entities_[id]
          IN  /\ has_component(e, "AI")
              /\ e.components_["AI"].current_state = "Idle"
              /\ e.components_["AI"].target_entity_id \in DOMAIN sys.entities_
              /\ e.components_["AI"].target_entity_id # id
              /\ LET te == sys.entities_[e.components_["AI"].target_entity_id]
                 IN  /\ has_component(te, "Health")
                     /\ te.components_["Health"].current_health <= 0

\* C33: the patrol points of an AI not being changed from outside, its
\* current_patrol_index stays below patrol_points.size() whenever the list
\* is not empty: a tick changes the index only of an AI it handles in the
\* Patrolling state, only to (index + 1) modulo the size of the list, and
\* only when the entity is within distance 1 of the patrol point at the
\* index; and a tick handling a Patrolling AI whose list is empty reads no
\* patrol point: it leaves the index and the Velocity as they were.
C33_PatrolIndexInRange ==
    [][("AISystem" \in DOMAIN systems_ /\ "AISystem" \in DOMAIN systems_') =>
        \A id \in DOMAIN systems_'["AISystem"].entities_ :
            LET after == systems_'["AISystem"].entities_[id]
                ai2 == after.components_["AI"]
            IN  has_component(after, "AI") =>
                /\ ai2.patrol_points # <<>> =>
                       ai2.current_patrol_index < Len(ai2.patrol_points)
                /\ (/\ last'.op = "tick"
                    /\ id \in DOMAIN systems_["AISystem"].entities_
                    /\ has_component(systems_["AISystem"].entities_[id], "AI"))
                   =>
                   LET e == systems_["AISystem"].entities_[id]
                       ai == e.components_["AI"]
                       point == ai.patrol_points[ai.current_patrol_index + 1]
                       pos == e.components_["Position"]
                       square == (point.x - pos.x) * (point.x - pos.x)
                                     + (point.y - pos.y) * (point.y - pos.y)
                   IN  /\ ai2.patrol_points = ai.patrol_points
                       /\ ai2.current_patrol_index # ai.current_patrol_index
                          => /\ ai.current_state = "Patrolling"
                             /\ has_component(e, "Position")
                             /\ has_component(e, "Velocity")
                             /\ ai.patrol_points # <<>>
                             /\ ai2.current_patrol_index =
                                    (ai.current_patrol_index + 1)
                                        % Len(ai.patrol_points)
                             /\ square < 1 * 1
                       /\ (/\ ai.current_state = "Patrolling"
                           /\ ai.patrol_points = <<>>)
                          => /\ ai2.current_patrol_index =
                                    ai.current_patrol_index
                             /\ has_component(e, "Velocity") =>
                                    after.components_["Velocity"] =
                                        e.components_["Velocity"]]_vars

\* a tick has just advanced the index of a Patrolling AI with two patrol
\* points from 0 to 1
C33_Witness ==
    /\ last.op = "tick"
    /\ "AISystem" \in DOMAIN systems_
    /\ \E id \in DOMAIN systems_["AISystem"].entities_ :
          LET e == systems_["AISystem"].entities_[id]
          IN  /\ has_component(e, "AI")
              /\ e.components_["AI"].current_state = "Patrolling"
              /\ Len(e.components_["AI"].patrol_points) = 2
              /\ e.components_["AI"].current_patrol_index = 1

\* C34 as stated: in a tick every AI of the AISystem that is Chasing or
\* Attacking and whose target_entity_id is not the identifier of an entity
\* of the AISystem becomes Idle, whatever entities the other systems hold;
\* the tick changes the health of no entity of another system, and of an
\* entity of the AISystem only when an Attacking AI of the AISystem targets it.
C34_EveryAILosesAbsentTarget ==
    [][(last'.op = "tick" /\ "AISystem" \in DOMAIN systems_) =>
        LET sys == systems_["AISystem"]
            after == systems_'["AISystem"]
            HealthOf(e) == IF has_component(e, "Health")
                           THEN e.components_["Health"].current_health
                           ELSE 0
        IN  /\ \A id \in DOMAIN sys.entities_ :
                  LET e == sys.entities_[id]
                  IN  (/\ has_component(e, "AI")
                       /\ e.components_["AI"].current_state
                              \in {"Chasing", "Attacking"}
                       /\ e.components_["AI"].target_entity_id
                              \notin DOMAIN sys.entities_)
                      => after.entities_[id].components_["AI"].current_state
                             = "Idle"
            /\ \A t \in DOMAIN systems_ \ {"AISystem"} :
                  \A id \in DOMAIN systems_[t].entities_ :
                      HealthOf(systems_'[t].entities_[id]) =
                          HealthOf(systems_[t].entities_[id])
            /\ \A id \in DOMAIN sys.entities_ :
                  HealthOf(after.entities_[id]) # HealthOf(sys.entities_[id])
                  => \E attacker \in DOMAIN sys.entities_ :
                        LET a == sys.entities_[attacker]
                        IN  /\ has_component(a, "AI")
                            /\ a.components_["AI"].current_state = "Attacking"
                            /\ a.components_["AI"].target_entity_id = id]_vars

\* C34, for the AIs the tick handles: in a tick every AI of the AISystem
\* that is Chasing or Attacking, whose entity has a Position and a Velocity
\* and whose target_entity_id is not the identifier of an entity of the
\* AISystem becomes Idle, whatever entities the other systems hold; the
\* tick changes the health of no entity of another system, and of an
\* entity of the AISystem only when an Attacking AI of the AISystem targets it.
C34_TargetResolvedInOwnRegistry ==
    [][(last'.op = "tick" /\ "AISystem" \in DOMAIN systems_) =>
        LET sys == systems_["AISystem"]
            after == systems_'["AISystem"]
            HealthOf(e) == IF has_component(e, "Health")
                           THEN e.components_["Health"].current_health
                           ELSE 0
        IN  /\ \A id \in DOMAIN sys.entities_ :
                  LET e == sys.entities_[id]
                  IN  (/\ has_component(e, "AI")
                       /\ has_component(e, "Position")
                       /\ has_component(e, "Velocity")
                       /\ e.components_["AI"].current_state
                              \in {"Chasing", "Attacking"}
                       /\ e.components_["AI"].target_entity_id
                              \notin DOMAIN sys.entities_)
                      => after.entities_[id].components_["AI"].current_state
                             = "Idle"
            /\ \A t \in DOMAIN systems_ \ {"AISystem"} :
                  \A id \in DOMAIN systems_[t].entities_ :
                      HealthOf(systems_'[t].entities_[id]) =
                          HealthOf(systems_[t].entities_[id])
            /\ \A id \in DOMAIN sys.entities_ :
                  HealthOf(after.entities_[id]) # HealthOf(sys.entities_[id])
                  => \E attacker \in DOMAIN sys.entities_ :
                        LET a == sys.entities_[attacker]
                        IN  /\ has_component(a, "AI")
                            /\ a.components_["AI"].current_state = "Attacking"
                            /\ a.components_["AI"].target_entity_id = id]_vars

\* a tick has just left an AI Idle whose target identifier names no entity
\* of the AISystem but an unharmed player of the MovementSystem
C34_Witness ==
    /\ last.op = "tick"
    /\ {"AISystem", "MovementSystem"} \subseteq DOMAIN systems_
    /\ \E id \in DOMAIN systems_["AISystem"].entities_ :
          LET e == systems_["AISystem"].entities_[id]
              others == systems_["MovementSystem"].entities_
          IN  /\ has_component(e, "AI")
              /\ e.components_["AI"].current_state = "Idle"
              /\ e.components_["AI"].target_entity_id
                     \notin DOMAIN systems_["AISystem"].entities_
              /\ e.components_["AI"].target_entity_id \in DOMAIN others
              /\ others[e.components_["AI"].target_entity_id]
                     .components_["Health"].current_health = 60

\* C35: removal re-enables addition.  An add_component<T>(args') that
\* follows a remove_component<T>() that returned true on the same entity
\* returns the address of a component, and get_component<T>() then gives
\* that address, of a component built from args' and owned by the entity.
\* An add_system<T>() that follows a remove_system<T>() that returned true
\* returns the address of a registered system, and the first add_entity on
\* that system returns the entity with id 1.
C35_RemovalReenablesAddition ==
    [][/\ (/\ last.op = "remove_component" /\ last.result
           /\ last'.op = "add_component"
           /\ last'.sys = last.sys /\ last'.id = last.id
           /\ last'.comp = last.comp)
          => LET self == <<last.sys, last.id>>
                 e == systems_'[last.sys].entities_[last.id]
             IN  /\ last'.result = Append(self, last.comp)
                 /\ get_component(self, e, last.comp) = last'.result
                 /\ e.components_[last.comp] =
                        [NewComponent(last.comp, last'.args)
                            EXCEPT !.owner = self]
       /\ (/\ last.op = "remove_system" /\ last.result
           /\ last'.op = "add_system" /\ last'.sys = last.sys)
          => /\ last'.result = <<last.sys>>
             /\ last.sys \in DOMAIN systems_'
       /\ (/\ last.op = "add_system" /\ last.readded
           /\ last'.op = "add_entity" /\ last'.sys = last.sys)
          => /\ last'.result = <<last.sys, 1>>
             /\ get_id(systems_'[last.sys].entities_[1]) = 1]_vars

\* add_entity has just returned the entity 1 of a MovementSystem added
\* again after its removal, while an entity of the HealthSystem holds the
\* Health of 0 hit points that was added when its first Health was removed
C35_Witness ==
    /\ last.op = "add_entity"
    /\ last.sys = "MovementSystem"
    /\ last.readded
    /\ last.result = <<"MovementSystem", 1>>
    /\ "HealthSystem" \in DOMAIN systems_
    /\ \E id \in DOMAIN systems_["HealthSystem"].entities_ :
          LET e == systems_["HealthSystem"].entities_[id]
          IN  /\ get_component(<<"HealthSystem", id>>, e, "Health") # nullptr
              /\ e.components_["Health"] =
                     [owner |-> <<"HealthSystem", id>>,
                      current_health |-> 0, max_health |-> 0]

====
